---- MODULE Spec2Model ----
(***************************************************************************)
(* Funnel computation engine of the hospitality analytics API              *)
(* (src/api.py, get_funnel_data), the endpoints derived from it, the       *)
(* dynamic event catalogue and the autonomous analyst                      *)
(* (src/engines/autonomousAnalyst.py).                                     *)
(*                                                                         *)
(* The handler builds a ClickHouse query around windowFunnel, reads the    *)
(* (funnel_level, reached_count) rows, folds them into per-step counts and *)
(* derives conversion, drop-off and revenue-at-risk for every step.        *)
(*                                                                         *)
(* Numbers.  Counts are integers.  The rates computed at api.py:1308-1309  *)
(* are doubles: each is kept as the exact value [num, den] of its          *)
(* expression and the expression, from which its double follows; the       *)
(* reported rates are round(double, 1), written in tenths of a percent     *)
(* (600 is 60.0).  revenue_at_risk is a whole amount (7800 is 7800.0).     *)
(* Timestamps are whole seconds, as toDateTime(timestamp) yields.          *)
(* The timing fields of a step (avg_time, avg_time_seconds,                *)
(* median_time_seconds) come from a separate per-step query and are        *)
(* treated in the section on GetFunnelDataTimed; the other handlers leave  *)
(* them out.  Requests carry no global_filters.                            *)
(***************************************************************************)
EXTENDS Integers, Sequences, FiniteSets, TLC

VARIABLES raw_events,   \* the rows of table raw_events
          sessions,     \* the rows of table sessions
          pc,           \* "idle" | "responded"
          request,      \* the request being answered
          funneled,     \* per executed query: session_id -> funnel_level
          rows,         \* per executed query: the rows run_query returned
          served,       \* per executed funnel query: the tables as the query read them
          step_counts,  \* step_index -> (segment -> count)
          metrics,      \* per step: the values computed before rounding
          response,     \* the returned dictionary
          call,         \* the last call of a helper function: name and arguments
          result,       \* what that call returned
          clock,        \* time.time() and datetime.now(), in whole seconds
          _DYNAMIC_EVENTS_CACHE,  \* api.py: {"events": [...], "ts": seconds}
          _anomaly_cache,         \* autonomousAnalyst.py: the anomalies of the last run
          _last_check_timestamp,  \* autonomousAnalyst.py: when the last run started
          periodic_check          \* where the background task of startup_event is

\* the state of the process that outlives a request
process_state == <<clock, _DYNAMIC_EVENTS_CACHE, _anomaly_cache, _last_check_timestamp,
                   periodic_check>>

vars == <<raw_events, sessions, pc, request, funneled, rows, served, step_counts, metrics, response,
          call, result, process_state>>

(***************************************************************************)
(* Bounds                                                                  *)
(***************************************************************************)
MaxSessions == 2
MaxUsers == 2
MaxEvents == 2
MaxSegEvents == 4
MaxSteps == 3
MaxDays == 1
MaxRows == 3
MaxLen == 3
\* statements GET /query is sent while one handler runs
MaxStatements == 1

(***************************************************************************)
(* Program constants                                                       *)
(***************************************************************************)
SecondsPerDay == 86400
MinDataWindowDays == 90
AvgBookingValue == 260
\* _DYNAMIC_EVENTS_TTL_SEC = 300
_DYNAMIC_EVENTS_TTL_SEC == 300
\* asyncio.sleep(900) between two anomaly checks
CheckPeriod == 900
\* _anomaly_cache keeps [:50]
AnomalyCacheSize == 50
\* the process is started at this instant of the clock
StartTime == 1000

Max(a, b) == IF a >= b THEN a ELSE b
MinOf(S) == CHOOSE m \in S : \A x \in S : m <= x

\* Optional[...]: None, or a value
None == [is_none |-> TRUE]
Some(v) == [is_none |-> FALSE, value |-> v]

EmptyDict == [x \in {} |-> 0]
Get(d, k, default) == IF k \in DOMAIN d THEN d[k] ELSE default
Put(d, k, v) == [x \in (DOMAIN d) \cup {k} |-> IF x = k THEN v ELSE d[x]]

RECURSIVE SumOver(_, _)
SumOver(d, keys) ==
    IF keys = {} THEN 0
    ELSE LET k == CHOOSE k \in keys : TRUE
         IN d[k] + SumOver(d, keys \ {k})

\* sum(d.values())
SumValues(d) == SumOver(d, DOMAIN d)

(***************************************************************************)
(* Input domains                                                           *)
(***************************************************************************)
EventTypeNames == <<"A", "B", "C", "D", "E">>
EventTypes == {EventTypeNames[i] : i \in 1..MaxSteps}
Devices == {"mobile", "desktop"}
Sessions == 1..MaxSessions
Users == 1..MaxUsers
CountingModes == {"unique_users", "sessions", "events"}

\* instants around the conversion window of the modelled completed_within
Times == {0, MaxDays * SecondsPerDay, MaxDays * SecondsPerDay + 1}
\* the instant of the request (now())
Now == MaxDays * SecondsPerDay + 1

\* the log of one session on one device: any step type, instants around the window
Events == [session_id : {1}, user_id : {1}, timestamp : Times,
           event_type : EventTypes, device_type : {"mobile"}]

\* the log of several sessions and users that visit the first two step types
\* in funnel order, one second apart, on either device
SegEvents ==
    {[session_id |-> s, user_id |-> u, timestamp |-> i - 1,
      event_type |-> EventTypeNames[i], device_type |-> d] :
        s \in Sessions, u \in Users, i \in 1..2, d \in Devices}

\* the same log on one device: the grouped handler takes device_type from
\* table sessions
GroupEvents == {e \in SegEvents : e.device_type = "mobile"}

Step(t) == [label |-> t, event_type |-> t, event_category |-> "generic", filters |-> <<>>]
Funnel(n) == [i \in 1..n |-> Step(EventTypeNames[i])]
Funnels == {Funnel(n) : n \in 1..MaxSteps}

DeviceSegment(name, dev) ==
    [name |-> name,
     filters |-> <<[property |-> "device_type", operator |-> "equals", value |-> dev]>>]
SegmentLists ==
    {<<DeviceSegment("Mobile", "mobile")>>,
     <<DeviceSegment("Mobile", "mobile"), DeviceSegment("Desktop", "desktop")>>}

\* group_by is Optional[str] = None
NoGroupBy == "None"
NoRequest == [steps |-> <<>>, completed_within |-> 0, counting_by |-> "none", segments |-> <<>>,
              group_by |-> NoGroupBy]
NoResponse == [data |-> <<>>, has_segments |-> FALSE]
NoCall == [fn |-> "none"]
NoResult == <<>>

\* FunnelRequest bodies: the funnel, the window in days, the counting mode
Requests(windows, segment_lists) ==
    [steps : Funnels, completed_within : windows, counting_by : CountingModes,
     segments : segment_lists, group_by : {NoGroupBy}]

(***************************************************************************)
(* Predicate of one step and of one segment filter                         *)
(***************************************************************************)
\* string value, operator equals: "<property> = '<value>'"
build_filter_condition(f, e) == e[f.property] = f.value

\* a generic step whose event_type is no key of EVENT_MAPPING:
\* "(event_type = '<event_type>')" and one clause per filter
map_ui_to_sql(step, e) ==
    /\ e.event_type = step.event_type
    /\ \A k \in 1..Len(step.filters) : build_filter_condition(step.filters[k], e)

\* segment_where: the segment's filters on the raw_events columns
segment_where(segment, e) ==
    \A k \in 1..Len(segment.filters) : build_filter_condition(segment.filters[k], e)

window_seconds(req) == req.completed_within * 24 * 60 * 60
data_window_days(req) == Max(MinDataWindowDays, req.completed_within * 3)
InDataWindow(e, req) == e.timestamp >= Now - data_window_days(req) * SecondsPerDay

(***************************************************************************)
(* windowFunnel(window)(timestamp, cond1, ..., condN), default mode:       *)
(* the (timestamp, condition index) pairs of the group are sorted, a       *)
(* cond1 event (re)starts the chain, a condK event extends the chain of    *)
(* condK-1 when it lies within window of that chain's first timestamp.     *)
(***************************************************************************)
NoTime == -1

EventList(evs, steps) ==
    {p \in {e.timestamp : e \in evs} \X (1..Len(steps)) :
        \E e \in evs : e.timestamp = p[1] /\ map_ui_to_sql(steps[p[2]], e)}

PairLess(p, q) == p[1] < q[1] \/ (p[1] = q[1] /\ p[2] < q[2])

\* mutants of ChainStep: order ignored; a step may be skipped; window exclusive
ChainStepAnyOrder(ts, window, p) ==
    [ts EXCEPT ![p[2]] = p[1]]

ChainStepSkipping(ts, window, p) ==
    IF p[2] = 1 THEN [ts EXCEPT ![1] = p[1]]
    ELSE IF \E j \in 1..(p[2] - 1) : ts[j] # NoTime /\ p[1] <= ts[j] + window
         THEN [ts EXCEPT ![p[2]] = p[1]]
         ELSE ts

ChainStepExclusive(ts, window, p) ==
    IF p[2] = 1 THEN [ts EXCEPT ![1] = p[1]]
    ELSE IF ts[p[2] - 1] # NoTime /\ p[1] < ts[p[2] - 1] + window
         THEN [ts EXCEPT ![p[2]] = ts[p[2] - 1]]
         ELSE ts

ChainStep(ts, window, p) ==
    IF p[2] = 1 THEN [ts EXCEPT ![1] = p[1]]
    ELSE IF ts[p[2] - 1] # NoTime /\ p[1] <= ts[p[2] - 1] + window
         THEN [ts EXCEPT ![p[2]] = ts[p[2] - 1]]
         ELSE ts

RECURSIVE FunnelScan(_, _, _)
FunnelScan(list, ts, window) ==
    IF list = {} THEN ts
    ELSE LET p == CHOOSE p \in list : \A q \in list : q = p \/ PairLess(p, q)
         IN FunnelScan(list \ {p}, ChainStep(ts, window, p), window)

windowFunnel(window, evs, steps) ==
    LET ts == FunnelScan(EventList(evs, steps), [i \in 1..Len(steps) |-> NoTime], window)
    IN LET reached == {0} \cup {i \in 1..Len(steps) : ts[i] # NoTime}
       IN CHOOSE m \in reached : \A x \in reached : m >= x

(***************************************************************************)
(* The queries                                                             *)
(***************************************************************************)
\* SELECT session_id, windowFunnel(...) AS funnel_level ... GROUP BY session_id
FunneledSubquery(sel, req) ==
    [s \in {e.session_id : e \in sel} |->
        windowFunnel(window_seconds(req), {e \in sel : e.session_id = s}, req.steps)]

RECURSIVE OrderByLevel(_, _)
OrderByLevel(levels, cnt) ==
    IF levels = {} THEN <<>>
    ELSE LET m == MinOf(levels)
         IN <<<<m, cnt[m]>>>> \o OrderByLevel(levels \ {m}, cnt)

\* ... WHERE funnel_level > 0 GROUP BY funnel_level ORDER BY funnel_level
\* joined: the raw_events rows the outer query joins to funneled
LevelRows(f, joined, counting_method) ==
    LET levels == {f[s] : s \in DOMAIN f} \ {0}
        cnt == [l \in levels |->
                  IF counting_method = "unique_users"
                  THEN Cardinality({e.user_id : e \in
                          {x \in joined : x.session_id \in DOMAIN f /\ f[x.session_id] = l}})
                  ELSE Cardinality({s \in DOMAIN f : f[s] = l})]
    IN OrderByLevel(levels, cnt)

UngroupedSelection(db, req) == {e \in db : InDataWindow(e, req)}
UngroupedFunneled(db, req) == FunneledSubquery(UngroupedSelection(db, req), req)
UngroupedQuery(db, req) == LevelRows(UngroupedFunneled(db, req), db, req.counting_by)

SegmentSelection(db, req, segment) ==
    {e \in db : InDataWindow(e, req) /\ segment_where(segment, e)}
SegmentFunneled(db, req, segment) == FunneledSubquery(SegmentSelection(db, req, segment), req)
SegmentQuery(db, req, segment) ==
    LevelRows(SegmentFunneled(db, req, segment),
              {e \in db : segment_where(segment, e)}, req.counting_by)

(***************************************************************************)
(* Folding the rows into per-step counts                                   *)
(***************************************************************************)
ReachedExactly(level, step_idx) == level = step_idx
Reached(level, step_idx) == level >= step_idx

AddRow(sc, row, step_count, segment) ==
    LET hit == {i \in 1..step_count : Reached(row[1], i)}
    IN [i \in (DOMAIN sc) \cup hit |->
          IF i \in hit
          THEN LET old == Get(sc, i, EmptyDict)
               IN Put(old, segment, Get(old, segment, 0) + row[2])
          ELSE sc[i]]

RECURSIVE ProcessRows(_, _, _, _)
ProcessRows(sc, rs, step_count, segment) ==
    IF rs = <<>> THEN sc
    ELSE ProcessRows(AddRow(sc, Head(rs), step_count, segment), Tail(rs), step_count, segment)

RECURSIVE ProcessSegments(_, _, _, _, _)
ProcessSegments(sc, segments, answers, step_count, k) ==
    IF k > Len(segments) THEN sc
    ELSE ProcessSegments(ProcessRows(sc, answers[k], step_count, segments[k].name),
                         segments, answers, step_count, k + 1)

(***************************************************************************)
(* group_by: the funneled subquery joined to table sessions, one row per   *)
(* (funnel_level, dimension value), ORDER BY funnel_level, dimension       *)
(***************************************************************************)
\* the values of the dimension in ORDER BY order
DimensionOrder == <<"desktop", "mobile">>
DimensionIndex(v) == CHOOSE i \in 1..Len(DimensionOrder) : DimensionOrder[i] = v

\* funneled INNER JOIN sessions s ON funneled.session_id = s.session_id
\* WHERE funneled.funnel_level > 0
GroupedJoin(f, table) ==
    {<<s, r>> \in (DOMAIN f) \X table : r.session_id = s /\ f[s] > 0}

GroupLess(g, h) ==
    g[1] < h[1] \/ (g[1] = h[1] /\ DimensionIndex(g[2]) < DimensionIndex(h[2]))

RECURSIVE OrderByLevelAndGroup(_, _)
OrderByLevelAndGroup(groups, cnt) ==
    IF groups = {} THEN <<>>
    ELSE LET g == CHOOSE x \in groups : \A y \in groups \ {x} : GroupLess(x, y)
         IN <<<<g[1], cnt[g], g[2]>>>> \o OrderByLevelAndGroup(groups \ {g}, cnt)

GroupedQuery(db, table, req) ==
    LET f == UngroupedFunneled(db, req)
        j == GroupedJoin(f, table)
        groups == {<<f[p[1]], p[2][req.group_by]>> : p \in j}
        members(g) == {p \in j : f[p[1]] = g[1] /\ p[2][req.group_by] = g[2]}
        cnt == [g \in groups |->
                  IF req.counting_by = "unique_users"
                  THEN Cardinality({e.user_id : e \in
                          {x \in db : \E p \in members(g) : x.session_id = p[1]}})
                  ELSE IF req.counting_by = "sessions"
                  THEN Cardinality({p[1] : p \in members(g)})
                  ELSE Cardinality(members(g))]
    IN OrderByLevelAndGroup(groups, cnt)

\* segment = str(row[2]) for every row of a grouped answer
RECURSIVE ProcessGroupedRows(_, _, _)
ProcessGroupedRows(sc, rs, step_count) ==
    IF rs = <<>> THEN sc
    ELSE ProcessGroupedRows(AddRow(sc, Head(rs), step_count, Head(rs)[3]),
                            Tail(rs), step_count)

(***************************************************************************)
(* Metrics of one step                                                     *)
(***************************************************************************)
\* A float of the handler is kept as the exact value of the expression that
\* produced it, a fraction num/den, and the expression: a literal, the rate
\* current_count / prev_count * 100, or 100.0 - that rate.  The double the
\* expression evaluates to is worked out from these where a result depends
\* on it.
Rat(n, d) == [num |-> n, den |-> d, float |-> "literal"]
Rate(current_count, prev_count) ==
    [num |-> current_count * 100, den |-> prev_count, float |-> "rate"]
Complement(rate) ==
    [num |-> 100 * rate.den - rate.num, den |-> rate.den,
     float |-> IF rate.float = "literal" THEN "literal" ELSE "complement"]

\* IEEE 754 binary64 on digits of base 1024 (10 bits each), most significant
\* first.  A number is digits / 1024^scale; the operations below keep the
\* scale.
Precision == 53

RECURSIVE Digits(_)
Digits(n) == IF n = 0 THEN <<>> ELSE Append(Digits(n \div 1024), n % 1024)

RECURSIVE BitLength(_)
BitLength(n) == IF n = 0 THEN 0 ELSE 1 + BitLength(n \div 2)

Zeros(n) == [i \in 1..n |-> 0]

RECURSIVE Trim(_)
Trim(b) == IF b # <<>> /\ Head(b) = 0 THEN Trim(Tail(b)) ELSE b

PadTo(b, n) == Zeros(n - Len(b)) \o b

RECURSIVE AddAt(_, _, _, _)
AddAt(a, b, i, carry) ==
    IF i = 0 THEN (IF carry = 1 THEN <<1>> ELSE <<>>)
    ELSE LET sum == a[i] + b[i] + carry
         IN Append(AddAt(a, b, i - 1, sum \div 1024), sum % 1024)

AddDigits(a, b) ==
    LET n == IF Len(a) > Len(b) THEN Len(a) ELSE Len(b)
    IN Trim(AddAt(PadTo(a, n), PadTo(b, n), n, 0))

\* a - b for a >= b
RECURSIVE SubAt(_, _, _, _)
SubAt(a, b, i, borrow) ==
    IF i = 0 THEN <<>>
    ELSE LET diff == a[i] - b[i] - borrow
         IN Append(SubAt(a, b, i - 1, IF diff < 0 THEN 1 ELSE 0),
                   IF diff < 0 THEN diff + 1024 ELSE diff)

SubDigits(a, b) ==
    LET n == IF Len(a) > Len(b) THEN Len(a) ELSE Len(b)
    IN Trim(SubAt(PadTo(a, n), PadTo(b, n), n, 0))

\* a * m for a small m
RECURSIVE TimesAt(_, _, _, _)
TimesAt(a, m, i, carry) ==
    IF i = 0 THEN Digits(carry)
    ELSE LET product == a[i] * m + carry
         IN Append(TimesAt(a, m, i - 1, product \div 1024), product % 1024)

TimesDigits(a, m) == Trim(TimesAt(a, m, Len(a), 0))

\* -1, 0 or 1 as a < b, a = b or a > b
CompareDigits(a, b) ==
    LET x == Trim(a)
        y == Trim(b)
    IN IF Len(x) # Len(y) THEN (IF Len(x) < Len(y) THEN -1 ELSE 1)
       ELSE IF x = y THEN 0
       ELSE LET i == CHOOSE i \in 1..Len(x) :
                        x[i] # y[i] /\ \A j \in 1..(i - 1) : x[j] = y[j]
            IN IF x[i] < y[i] THEN -1 ELSE 1

ShiftDigits(b, n) == b \o Zeros(n)

\* round to nearest, ties to even, at 53 significant bits; inexact tells
\* that digits beyond the given ones are not all zero
RoundToDouble(b, inexact) ==
    LET x == Trim(b)
        n == Len(x)
        bits == IF n = 0 THEN 0 ELSE 10 * (n - 1) + BitLength(x[1])
        drop == bits - Precision
        \* the bit of weight 2^k and the bits below it
        Bit(k) == (x[n - (k \div 10)] \div (2 ^ (k % 10))) % 2
        Below(k) == \/ x[n - (k \div 10)] % (2 ^ (k % 10)) # 0
                    \/ \E i \in (n - (k \div 10) + 1)..n : x[i] # 0
        kept == [i \in 1..n |->
                    IF n - i < drop \div 10 THEN 0
                    ELSE IF n - i = drop \div 10
                    THEN x[i] - (x[i] % (2 ^ (drop % 10)))
                    ELSE x[i]]
        ulp == [i \in 1..n |->
                    IF n - i = drop \div 10 THEN 2 ^ (drop % 10) ELSE 0]
        up == /\ Bit(drop - 1) = 1
              /\ (inexact \/ Below(drop - 1) \/ Bit(drop) = 1)
    IN IF bits <= Precision THEN x
       ELSE IF up THEN AddDigits(kept, ulp) ELSE kept

\* the first n digits of r / p after the point, for 0 <= r < p
RECURSIVE FractionDigits(_, _, _)
FractionDigits(r, p, n) ==
    IF n = 0 THEN [digits |-> <<>>, rem |-> r]
    ELSE LET rest == FractionDigits((r * 1024) % p, p, n - 1)
         IN [digits |-> <<(r * 1024) \div p>> \o rest.digits, rem |-> rest.rem]

\* digits after the point that hold 53 significant bits and more of any
\* quotient by p
Scale(p) == 6 + Len(Digits(p))

\* a / p as a double, for a >= 0 and p > 0
DivideDouble(a, p) ==
    LET f == FractionDigits(a % p, p, Scale(p))
    IN RoundToDouble(Digits(a \div p) \o f.digits, f.rem # 0)

\* |current_count / prev_count * 100| as a double, at scale Scale(prev_count)
RateMagnitude(current_count, prev_count) ==
    RoundToDouble(
        TimesDigits(DivideDouble(IF current_count < 0 THEN -current_count
                                 ELSE current_count, prev_count), 100),
        FALSE)

\* 100.0 - rate as a double: its sign and its magnitude at the same scale
ComplementDouble(current_count, prev_count) ==
    LET rate == RateMagnitude(current_count, prev_count)
        hundred == ShiftDigits(Digits(100), Scale(prev_count))
    IN IF current_count < 0
       THEN [sign |-> 1, digits |-> RoundToDouble(AddDigits(hundred, rate), FALSE)]
       ELSE IF CompareDigits(rate, hundred) <= 0
       THEN [sign |-> 1, digits |-> RoundToDouble(SubDigits(hundred, rate), FALSE)]
       ELSE [sign |-> -1, digits |-> RoundToDouble(SubDigits(rate, hundred), FALSE)]

\* where the double of x lies when the exact value of x ends in 5 hundredths,
\* that is |x| = t / 20 with t odd: -1 below the exact value, 1 above it,
\* 0 on it
DoubleSide(x) ==
    IF x.float = "literal" THEN 0
    ELSE LET current_count == IF x.float = "rate" THEN x.num \div 100
                              ELSE (100 * x.den - x.num) \div 100
             t == (20 * (IF x.num < 0 THEN -x.num ELSE x.num)) \div x.den
             exact == ShiftDigits(Digits(t), Scale(x.den))
         IN IF x.float = "rate"
            THEN (IF current_count < 0 THEN -1 ELSE 1)
                    * CompareDigits(TimesDigits(RateMagnitude(current_count, x.den), 20),
                                    exact)
            ELSE LET y == ComplementDouble(current_count, x.den)
                 IN y.sign * CompareDigits(TimesDigits(y.digits, 20), exact)

\* round(x, 1), in tenths: the tenth nearest to the double, the even one when
\* the double is half way.  The double is within 2^-45 of the exact value and
\* a point half way between two tenths is an odd multiple of 1/20, so off
\* such a point the double and the exact value have the same nearest tenth.
Round1(x) ==
    LET q == (x.num * 10) \div x.den
        r == (x.num * 10) % x.den
    IN IF 2 * r # x.den THEN (IF 2 * r > x.den THEN q + 1 ELSE q)
       ELSE LET side == DoubleSide(x)
            IN IF side > 0 \/ (side = 0 /\ q % 2 = 1) THEN q + 1 ELSE q

StepTotal(sc, i) == SumValues(Get(sc, i, EmptyDict))

PrevCount(sc, step_num, current_count) ==
    IF step_num > 1 THEN StepTotal(sc, step_num - 1) ELSE current_count

ConversionRateZeroDefault(current_count, prev_count) ==
    IF prev_count > 0 THEN Rate(current_count, prev_count) ELSE Rat(0, 1)
ConversionRate(current_count, prev_count) ==
    IF prev_count > 0 THEN Rate(current_count, prev_count) ELSE Rat(100, 1)

DroppedCountSigned(current_count, next_count) == current_count - next_count
DroppedCount(current_count, next_count) == Max(0, current_count - next_count)

StepMetrics(sc, step_count, step_num) ==
    LET current_count == StepTotal(sc, step_num)
        prev_count == PrevCount(sc, step_num, current_count)
        next_count == IF step_num < step_count THEN StepTotal(sc, step_num + 1)
                      ELSE current_count
        conversion_rate == ConversionRate(current_count, prev_count)
        drop_off_rate == IF step_num > 1 THEN Complement(conversion_rate) ELSE Rat(0, 1)
        dropped_count == DroppedCount(current_count, next_count)
    IN [current_count |-> current_count,
        prev_count |-> prev_count,
        next_count |-> next_count,
        conversion_rate |-> conversion_rate,
        drop_off_rate |-> drop_off_rate,
        dropped_count |-> dropped_count,
        revenue_at_risk |-> dropped_count * AvgBookingValue]

AllMetrics(sc, step_count) == [i \in 1..step_count |-> StepMetrics(sc, step_count, i)]

ResultEntry(step, m, segments_out) ==
    [step_name |-> step.label,
     event_type |-> step.event_type,
     visitors |-> m.current_count,
     conversion_rate |-> Round1(m.conversion_rate),
     drop_off_rate |-> Round1(m.drop_off_rate),
     revenue_at_risk |-> m.revenue_at_risk,
     segments |-> segments_out]

(***************************************************************************)
(* The handler after its queries have been answered                        *)
(***************************************************************************)
Store(db, table) == [raw_events |-> db, sessions |-> table]

\* dbs: table raw_events as each funnel query read it; stores: the tables
\* the handler can return on
RespondServed(req, fs, answers, sc, has_segments, dbs, stores) ==
    LET step_count == Len(req.steps)
        ms == AllMetrics(sc, step_count)
    IN /\ request' = req
       /\ funneled' = fs
       /\ rows' = answers
       /\ served' = [k \in 1..Len(dbs) |-> Store(dbs[k], sessions)]
       /\ step_counts' = sc
       /\ metrics' = ms
       /\ response' =
            [data |-> [i \in 1..step_count |->
                         ResultEntry(req.steps[i], ms[i],
                                     IF has_segments
                                        \/ (req.group_by # NoGroupBy
                                            /\ Get(sc, i, EmptyDict) # EmptyDict)
                                     THEN Get(sc, i, EmptyDict)
                                     ELSE [x \in {"all"} |-> ms[i].current_count])],
             has_segments |-> has_segments]
       /\ pc' = "responded"
       /\ \E store \in stores :
            /\ raw_events' = store.raw_events
            /\ sessions' = store.sessions
       /\ UNCHANGED <<call, result, process_state>>

\* the handler against a store whose answers do not come from raw_events
Respond(req, fs, answers, sc, has_segments) ==
    RespondServed(req, fs, answers, sc, has_segments, <<>>, {Store(raw_events, sessions)})

RespondUngrouped(req, fs, answers) ==
    Respond(req, fs, answers,
            ProcessRows(EmptyDict, answers[1], Len(req.steps), "all"), FALSE)

\* the handler over raw_events: its funnel queries read the table as it is
\* in dbs, and the tables are as in one of stores once the time queries of
\* the steps have been answered
RespondUngroupedOn(dbs, req, stores) ==
    LET answers == <<UngroupedQuery(dbs[1], req)>>
    IN RespondServed(req, <<UngroupedFunneled(dbs[1], req)>>, answers,
                     ProcessRows(EmptyDict, answers[1], Len(req.steps), "all"), FALSE,
                     dbs, stores)

RespondGroupedOn(dbs, req, stores) ==
    LET answers == <<GroupedQuery(dbs[1], sessions, req)>>
    IN RespondServed(req, <<UngroupedFunneled(dbs[1], req)>>, answers,
                     ProcessGroupedRows(EmptyDict, answers[1], Len(req.steps)), FALSE,
                     dbs, stores)

RespondSegments(req, fs, answers) ==
    Respond(req, fs, answers,
            ProcessSegments(EmptyDict, req.segments, answers, Len(req.steps), 1), TRUE)

RespondSegmentsOn(dbs, req, stores) ==
    LET answers == [k \in 1..Len(req.segments) |-> SegmentQuery(dbs[k], req, req.segments[k])]
    IN RespondServed(req,
                     [k \in 1..Len(req.segments) |->
                        SegmentFunneled(dbs[k], req, req.segments[k])],
                     answers,
                     ProcessSegments(EmptyDict, req.segments, answers, Len(req.steps), 1),
                     TRUE, dbs, stores)

(***************************************************************************)
(* Actions                                                                 *)
(***************************************************************************)
Init ==
    /\ raw_events = {}
    /\ sessions = {}
    /\ pc = "idle"
    /\ request = NoRequest
    /\ funneled = <<>>
    /\ rows = <<>>
    /\ served = <<>>
    /\ step_counts = EmptyDict
    /\ metrics = <<>>
    /\ response = NoResponse
    /\ call = NoCall
    /\ result = NoResult
    /\ clock = StartTime
    /\ _DYNAMIC_EVENTS_CACHE = [events |-> <<>>, ts |-> 0]
    /\ _anomaly_cache = <<>>
    /\ _last_check_timestamp = None
    /\ periodic_check = "not_started"

\* POST /api/track writes one row.  event_id is a fresh uuid: rows that agree
\* in every other column are told apart by it, and it is kept as the number
\* of the row among those.
SameEvent(x, e) ==
    /\ x.session_id = e.session_id /\ x.user_id = e.user_id /\ x.timestamp = e.timestamp
    /\ x.event_type = e.event_type /\ x.device_type = e.device_type

Stored(e, db) ==
    [event_id |-> 1 + Cardinality({x \in db : SameEvent(x, e)}),
     session_id |-> e.session_id, user_id |-> e.user_id, timestamp |-> e.timestamp,
     event_type |-> e.event_type, device_type |-> e.device_type]

Ingest(universe, cap) ==
    /\ pc = "idle"
    /\ Cardinality(raw_events) < cap
    /\ \E e \in universe : raw_events' = raw_events \cup {Stored(e, raw_events)}
    /\ UNCHANGED <<sessions, pc, request, funneled, rows, served, step_counts, metrics,
                   response, call, result, process_state>>

IngestEvent == Ingest(Events, MaxEvents)
IngestSegEvent == Ingest(SegEvents, MaxSegEvents)
IngestGroupEvent == Ingest(GroupEvents, MaxSegEvents)

\* GET /query passes any statement to the store.  On raw_events:
\*   TRUNCATE TABLE raw_events
\*   INSERT INTO raw_events (...) VALUES (<row>)
\*   DELETE FROM raw_events WHERE <column> = <the value row has in column>
EventColumns == {"session_id", "user_id", "timestamp", "event_type", "device_type"}

EventStatements(universe) ==
    [command : {"TRUNCATE", "INSERT"}, column : {"*"}, row : universe]
        \cup [command : {"DELETE"}, column : EventColumns, row : universe]

RunOnEvents(statement, db) ==
    CASE statement.command = "TRUNCATE" -> {}
      [] statement.command = "INSERT" -> db \cup {Stored(statement.row, db)}
      [] OTHER -> {e \in db : e[statement.column] # statement.row[statement.column]}

\* On sessions, the same statements.  Table sessions holds equal rows as often
\* as they were inserted: copy numbers them.
SessionRows == [session_id : Sessions, device_type : Devices]

SessionStatements ==
    [command : {"TRUNCATE", "INSERT"}, column : {"*"}, row : SessionRows]
        \cup [command : {"DELETE"}, column : {"session_id", "device_type"}, row : SessionRows]

RunOnSessions(statement, table) ==
    CASE statement.command = "TRUNCATE" -> {}
      [] statement.command = "INSERT" ->
           table \cup
             {[session_id |-> statement.row.session_id,
               device_type |-> statement.row.device_type,
               copy |-> 1 + Cardinality({r \in table :
                                           /\ r.session_id = statement.row.session_id
                                           /\ r.device_type = statement.row.device_type})]}
      [] OTHER -> {r \in table : r[statement.column] # statement.row[statement.column]}

\* the modelled tables hold at most cap rows
Accepts(statement, table, cap) ==
    statement.command = "INSERT" => Cardinality(table) < cap

QueryEvents(statements, cap) ==
    /\ pc = "idle"
    /\ \E statement \in statements :
         /\ Accepts(statement, raw_events, cap)
         /\ raw_events' = RunOnEvents(statement, raw_events)
    /\ UNCHANGED <<sessions, pc, request, funneled, rows, served, step_counts, metrics,
                   response, call, result, process_state>>

QuerySessions ==
    /\ pc = "idle"
    /\ \E statement \in SessionStatements :
         /\ Accepts(statement, sessions, MaxSessions)
         /\ sessions' = RunOnSessions(statement, sessions)
    /\ UNCHANGED <<raw_events, pc, request, funneled, rows, served, step_counts, metrics,
                   response, call, result, process_state>>

\* query is a plain def and runs in the thread pool, so its statements are
\* served also while a handler waits for one of its own queries or is between
\* two of them.  The tables after one more statement, or none:
ServedOne(stores, statements, cap, session_statements) ==
    stores
      \cup UNION {{Store(RunOnEvents(st, s.raw_events), s.sessions) :
                     st \in {x \in statements : Accepts(x, s.raw_events, cap)}} :
                  s \in stores}
      \cup UNION {{Store(s.raw_events, RunOnSessions(st, s.sessions)) :
                     st \in {x \in session_statements : Accepts(x, s.sessions, MaxSessions)}} :
                  s \in stores}

\* after at most n statements
RECURSIVE ServedWithin(_, _, _, _, _)
ServedWithin(stores, statements, cap, session_statements, n) ==
    IF n = 0 THEN stores
    ELSE ServedWithin(ServedOne(stores, statements, cap, session_statements),
                      statements, cap, session_statements, n - 1)

EventsWithin(db, statements, cap, n) ==
    {s.raw_events : s \in ServedWithin({Store(db, {})}, statements, cap, {}, n)}

\* read: raw_events as n successive queries of one handler read it, the
\* first on db, with at most budget statements served in between; left: the
\* statements that can still be served before the handler returns
RECURSIVE Trips(_, _, _, _, _)
Trips(db, n, statements, cap, budget) ==
    IF n = 0 THEN {[read |-> <<>>, left |-> budget]}
    ELSE IF n = 1 THEN {[read |-> <<db>>, left |-> budget]}
    ELSE UNION {UNION {{[read |-> <<db>> \o later.read, left |-> later.left] :
                          later \in Trips(d, n - 1, statements, cap, budget - used)} :
                       d \in EventsWithin(db, statements, cap, used)} :
                used \in 0..budget}

\* the tables a handler can return on whose queries went as in trip, the
\* last of them still waited for when the remaining statements are served
AfterTrip(trip, statements, cap) ==
    ServedWithin({Store(trip.read[Len(trip.read)], sessions)}, statements, cap, {}, trip.left)

\* POST /api/funnel without segments, the store being ClickHouse over
\* raw_events: the funnel query, then one time query per step
FunnelData(requests, statements, cap) ==
    /\ pc = "idle"
    /\ LET later == ServedWithin({Store(raw_events, sessions)}, statements, cap, {},
                                 MaxStatements)
       IN \E req \in requests : RespondUngroupedOn(<<raw_events>>, req, later)

\* POST /api/funnel with named segments: one query per segment
FunnelDataSegments(requests, statements, cap) ==
    /\ pc = "idle"
    /\ \E req \in requests :
         \E trip \in Trips(raw_events, Len(req.segments), statements, cap, MaxStatements) :
            RespondSegmentsOn(trip.read, req, AfterTrip(trip, statements, cap))

QueryEvent == QueryEvents(EventStatements(Events), MaxEvents)
QuerySegEvent == QueryEvents(EventStatements(SegEvents), MaxSegEvents)
QueryGroupEvent == QueryEvents(EventStatements(GroupEvents), MaxSegEvents)

GetFunnelData == FunnelData(Requests({MaxDays}, {<<>>}), EventStatements(Events), MaxEvents)
\* over the several-session log every event is within a second of the others,
\* so the window stays at its default of one day
SegGetFunnelData ==
    FunnelData(Requests({1}, {<<>>}), EventStatements(SegEvents), MaxSegEvents)
SegGetFunnelDataSegments ==
    FunnelDataSegments(Requests({1}, SegmentLists), EventStatements(SegEvents), MaxSegEvents)

\* the response has been sent; the handler keeps nothing
Return ==
    /\ pc = "responded"
    /\ pc' = "idle"
    /\ request' = NoRequest
    /\ funneled' = <<>>
    /\ rows' = <<>>
    /\ served' = <<>>
    /\ step_counts' = EmptyDict
    /\ metrics' = <<>>
    /\ response' = NoResponse
    /\ UNCHANGED <<raw_events, sessions, call, result, process_state>>

Next == IngestEvent \/ QueryEvent \/ GetFunnelData \/ Return

Spec == Init /\ [][Next]_vars

\* the same handler over an event log with several sessions per user
SegmentNext ==
    IngestSegEvent \/ QuerySegEvent \/ SegGetFunnelData \/ SegGetFunnelDataSegments \/ Return

SegmentSpec == Init /\ [][SegmentNext]_vars

\* the handler with group_by over the several-session log and table sessions
GroupedRequests ==
    [steps : Funnels, completed_within : {1}, counting_by : CountingModes,
     segments : {<<>>}, group_by : {"device_type"}]

\* POST /api/funnel with group_by and no segments: the funnel query, then one
\* time query per step
GetFunnelDataGrouped ==
    /\ pc = "idle"
    /\ LET later == ServedWithin({Store(raw_events, sessions)}, EventStatements(GroupEvents),
                                 MaxSegEvents, SessionStatements, MaxStatements)
       IN \E req \in GroupedRequests : RespondGroupedOn(<<raw_events>>, req, later)

GroupNext ==
    IngestGroupEvent \/ QueryGroupEvent \/ QuerySessions \/ GetFunnelDataGrouped \/ Return

GroupSpec == Init /\ [][GroupNext]_vars

(***************************************************************************)
(* The handler against a store that answers each query with any rows:      *)
(* levels 0..N in ORDER BY order, counts of either sign.                    *)
(***************************************************************************)
RowCounts == {-1, 0, 30, 40}

RowListsOfLen(n, step_count) ==
    {rs \in [1..n -> (0..step_count) \X RowCounts] :
        \A i \in 1..(n - 1) : rs[i][1] <= rs[i + 1][1]}

\* one list of rows per executed query, MaxRows rows at most in all
RowLists(budget, step_count) ==
    UNION {RowListsOfLen(n, step_count) : n \in 0..budget}

\* completed_within and counting_by at their defaults: they shape the query
\* text only, and the answer is the store's
StoreRequests(segment_lists) ==
    [steps : Funnels, completed_within : {1}, counting_by : {"unique_users"},
     segments : segment_lists, group_by : {NoGroupBy}]

StoreGetFunnelData ==
    /\ pc = "idle"
    /\ \E req \in StoreRequests({<<>>}) :
         \E a \in RowLists(MaxRows, Len(req.steps)) :
            RespondUngrouped(req, <<>>, <<a>>)

StoreGetFunnelDataSegments ==
    /\ pc = "idle"
    /\ \E req \in StoreRequests(SegmentLists) :
         \E a \in RowLists(MaxRows, Len(req.steps)) :
            IF Len(req.segments) = 1
            THEN RespondSegments(req, <<>>, <<a>>)
            ELSE \E b \in RowLists(MaxRows - Len(a), Len(req.steps)) :
                    RespondSegments(req, <<>>, <<a, b>>)

StoreNext == StoreGetFunnelData \/ StoreGetFunnelDataSegments \/ Return

StoreSpec == Init /\ [][StoreNext]_vars

\* the same handler against answers of two rows whose counts make rates that
\* end in 5 hundredths (23 of 80 is 28.75 percent) and rates that do not
RateCounts == {1, 23, 31, 49, 57, 1999}

RateRowLists(step_count) ==
    {rs \in [1..2 -> (1..step_count) \X RateCounts] : rs[1][1] <= rs[2][1]}

RateGetFunnelData ==
    /\ pc = "idle"
    /\ \E req \in StoreRequests({<<>>}) :
         \E a \in RateRowLists(Len(req.steps)) :
            RespondUngrouped(req, <<>>, <<a>>)

RateNext == RateGetFunnelData \/ Return

RateSpec == Init /\ [][RateNext]_vars

(***************************************************************************)
(* The text of the conditions.  A text is a sequence of pieces: a piece is *)
(* one of the characters that the code treats specially (quote, comma,     *)
(* blank, backslash) or a run of other characters.  The pieces of the      *)
(* f-string templates are kept whole (" = ", " LIKE '%", ...).             *)
(***************************************************************************)
Quote == "'"
Comma == ","
Blank == " "
Backslash == "\\"

\* s.replace("'", "''"), and the text left as it is
RECURSIVE EscapeQuotes(_)
EscapeQuotes(s) ==
    IF s = <<>> THEN <<>>
    ELSE (IF Head(s) = Quote THEN <<Quote, Quote>> ELSE <<Head(s)>>) \o EscapeQuotes(Tail(s))

\* s.split(","): the parts between the commas, at least one
RECURSIVE SplitFrom(_, _)
SplitFrom(s, part) ==
    IF s = <<>> THEN <<part>>
    ELSE IF Head(s) = Comma THEN <<part>> \o SplitFrom(Tail(s), <<>>)
    ELSE SplitFrom(Tail(s), Append(part, Head(s)))
Split(s) == SplitFrom(s, <<>>)

\* v.strip()
RECURSIVE LStrip(_)
LStrip(s) == IF s # <<>> /\ Head(s) = Blank THEN LStrip(Tail(s)) ELSE s
RECURSIVE RStrip(_)
RStrip(s) ==
    IF s # <<>> /\ s[Len(s)] = Blank THEN RStrip(SubSeq(s, 1, Len(s) - 1)) ELSE s
Strip(s) == RStrip(LStrip(s))

\* ", ".join(parts)
RECURSIVE Join(_, _)
Join(parts, sep) ==
    IF parts = <<>> THEN <<>>
    ELSE IF Len(parts) = 1 THEN parts[1]
    ELSE parts[1] \o <<sep>> \o Join(Tail(parts), sep)

Contains(s, c) == \E i \in 1..Len(s) : s[i] = c

\* repr() of a str without double quotes in it: backslashes doubled, the
\* string in double quotes when it holds a single quote
RECURSIVE DoubleBackslashes(_)
DoubleBackslashes(s) ==
    IF s = <<>> THEN <<>>
    ELSE (IF Head(s) = Backslash THEN <<Backslash, Backslash>> ELSE <<Head(s)>>)
         \o DoubleBackslashes(Tail(s))
Repr(s) ==
    IF Contains(s, Quote) THEN <<"\"">> \o DoubleBackslashes(s) \o <<"\"">>
    ELSE <<Quote>> \o DoubleBackslashes(s) \o <<Quote>>

\* filter values by Python type
BoolValue(b) == [type |-> "bool", b |-> b, n |-> 0, s |-> <<>>, l |-> <<>>]
NumberValue(n) == [type |-> "number", b |-> FALSE, n |-> n, s |-> <<>>, l |-> <<>>]
StringValue(s) == [type |-> "str", b |-> FALSE, n |-> 0, s |-> s, l |-> <<>>]
ListValue(l) == [type |-> "list", b |-> FALSE, n |-> 0, s |-> <<>>, l |-> l]

\* str(value)
Str(value) ==
    IF value.type = "str" THEN value.s
    ELSE IF value.type = "list"
    THEN <<"[">> \o Join([i \in 1..Len(value.l) |-> Repr(value.l[i])], ", ") \o <<"]">>
    ELSE IF value.type = "number" THEN <<ToString(value.n)>>
    ELSE <<IF value.b THEN "True" ELSE "False">>

QuotedList(values) ==
    Join([i \in 1..Len(values) |-> <<Quote>> \o values[i] \o <<Quote>>], ", ")

\* the values of an in / not_in filter, each with its quotes doubled
InValues(value) ==
    IF value.type = "list"
    THEN [i \in 1..Len(value.l) |-> EscapeQuotes(value.l[i])]
    ELSE LET parts == Split(Str(value))
         IN [i \in 1..Len(parts) |-> EscapeQuotes(Strip(parts[i]))]

\* the last branch of each type: `return f"{prop} = ..."`
DefaultNotEquals(prop, value_text) == <<prop, " != ">> \o value_text
DefaultEquals(prop, value_text) == <<prop, " = ">> \o value_text

build_filter_condition_text(filter_obj) ==
    LET prop == filter_obj.property
        operator == filter_obj.operator
        value == filter_obj.value
    IN IF operator = "is_null" THEN <<prop, " IS NULL">>
       ELSE IF operator = "is_not_null" THEN <<prop, " IS NOT NULL">>
       ELSE IF value.type = "bool"
       THEN LET bool_val == IF value.b THEN "1" ELSE "0"
            IN IF operator = "equals" THEN <<prop, " = ", bool_val>>
               ELSE IF operator = "not_equals" THEN <<prop, " != ", bool_val>>
               ELSE DefaultEquals(prop, <<bool_val>>)
       ELSE IF value.type = "number"
       THEN LET n == ToString(value.n)
            IN IF operator = "equals" THEN <<prop, " = ", n>>
               ELSE IF operator = "not_equals" THEN <<prop, " != ", n>>
               ELSE IF operator = "greater_than" THEN <<prop, " > ", n>>
               ELSE IF operator = "less_than" THEN <<prop, " < ", n>>
               ELSE IF operator = "greater_than_or_equal" THEN <<prop, " >= ", n>>
               ELSE IF operator = "less_than_or_equal" THEN <<prop, " <= ", n>>
               ELSE DefaultEquals(prop, <<n>>)
       ELSE LET value_escaped_safe == EscapeQuotes(Str(value))
                value_escaped == <<Quote>> \o value_escaped_safe \o <<Quote>>
            IN IF operator = "equals" THEN <<prop, " = ">> \o value_escaped
               ELSE IF operator = "not_equals" THEN <<prop, " != ">> \o value_escaped
               ELSE IF operator = "contains"
               THEN <<prop, " LIKE ", Quote, "%">> \o value_escaped_safe \o <<"%", Quote>>
               ELSE IF operator = "not_contains"
               THEN <<prop, " NOT LIKE ", Quote, "%">> \o value_escaped_safe \o <<"%", Quote>>
               ELSE IF operator = "starts_with"
               THEN <<prop, " LIKE ", Quote>> \o value_escaped_safe \o <<"%", Quote>>
               ELSE IF operator = "ends_with"
               THEN <<prop, " LIKE ", Quote, "%">> \o value_escaped_safe \o <<Quote>>
               ELSE IF operator = "in"
               THEN <<prop, " IN (">> \o QuotedList(InValues(value)) \o <<")">>
               ELSE IF operator = "not_in"
               THEN <<prop, " NOT IN (">> \o QuotedList(InValues(value)) \o <<")">>
               ELSE DefaultEquals(prop, value_escaped)

\* the operators the function names, and some it does not
ListedOperators ==
    {"equals", "not_equals", "contains", "not_contains", "starts_with", "ends_with",
     "greater_than", "less_than", "greater_than_or_equal", "less_than_or_equal",
     "in", "not_in", "is_null", "is_not_null"}
UnlistedOperators == {"regex", "", "EQUALS"}

Pieces == {"a", Quote, Comma, Blank, Backslash}
Texts == UNION {[1..n -> Pieces] : n \in 0..MaxLen}

ListElements == {<<"a">>, <<Quote>>, <<"a", Quote, "b">>}
FilterValues ==
    {BoolValue(b) : b \in BOOLEAN} \cup {NumberValue(n) : n \in {-1, 0, 5}}
        \cup {StringValue(t) : t \in Texts}
        \cup {ListValue(<<x>>) : x \in ListElements}
        \cup {ListValue(<<x, y>>) : x \in ListElements, y \in ListElements}

EventFilters ==
    [property : {"device_type"}, operator : ListedOperators \cup UnlistedOperators,
     value : FilterValues]

BuildFilterCondition ==
    /\ call = NoCall
    /\ \E filter_obj \in EventFilters :
         /\ call' = [fn |-> "build_filter_condition", filter_obj |-> filter_obj]
         /\ result' = build_filter_condition_text(filter_obj)
    /\ UNCHANGED <<raw_events, sessions, pc, request, funneled, rows, served, step_counts,
                   metrics, response, process_state>>

(***************************************************************************)
(* map_ui_to_sql as text                                                   *)
(***************************************************************************)
Name2(a, b) == <<a, Blank, b>>

EVENT_MAPPING_KEYS ==
    {Name2("Page", "Viewed"), <<"Click">>, Name2("Form", "Started"),
     Name2("Form", "Submitted"), <<"Scroll">>, <<"Error">>, Name2("Any", "Event"),
     <<"Landed">>, Name2("Location", "Select"), Name2("Date", "Select"),
     Name2("Room", "Select"), Name2("Add-on", "Select"), Name2("Guest", "Info"),
     <<"Payment">>, <<"Confirmation">>}

\* EVENT_MAPPING[name]["base"]
EVENT_MAPPING ==
    [k \in EVENT_MAPPING_KEYS |->
        IF k = Name2("Page", "Viewed") THEN <<"event_type = 'page_view'">>
        ELSE IF k = <<"Click">> THEN <<"event_type = 'click'">>
        ELSE IF k = Name2("Form", "Started")
        THEN <<"event_type = 'form_interaction' AND interaction_type = 'focus'">>
        ELSE IF k = Name2("Form", "Submitted") THEN <<"event_type = 'form_submit'">>
        ELSE IF k = <<"Scroll">> THEN <<"event_type = 'scroll'">>
        ELSE IF k = <<"Error">> THEN <<"event_type = 'error'">>
        ELSE IF k = Name2("Any", "Event") THEN <<"1=1">>
        ELSE IF k = <<"Landed">> THEN <<"funnel_step = 1">>
        ELSE IF k = Name2("Location", "Select") THEN <<"funnel_step = 2">>
        ELSE IF k = Name2("Date", "Select") THEN <<"funnel_step = 3">>
        ELSE IF k = Name2("Room", "Select") THEN <<"funnel_step = 4">>
        ELSE IF k = Name2("Add-on", "Select") THEN <<"funnel_step = 5">>
        ELSE IF k = Name2("Guest", "Info") THEN <<"funnel_step = 6">>
        ELSE IF k = <<"Payment">> THEN <<"funnel_step = 7">>
        ELSE <<"funnel_step = 8">>]

hospitality_step_map ==
    [k \in {<<"Landed">>, Name2("Location", "Select"), Name2("Date", "Select"),
            Name2("Room", "Select"), Name2("Add-on", "Select"), Name2("Guest", "Info"),
            <<"Payment">>, <<"Confirmation">>} |-> EVENT_MAPPING[k]]

\* int(step.event_type) succeeds: blanks around a run of digits ("7" is the
\* digit piece; a run of sevens prints as it is written)
Digit == "7"
ParsesAsInt(s) ==
    LET t == Strip(s) IN t # <<>> /\ \A i \in 1..Len(t) : t[i] = Digit

LiteralMatch(event_type) == <<"event_type = ", Quote>> \o EscapeQuotes(event_type) \o <<Quote>>

base_condition(step) ==
    IF step.event_category = "custom"
    THEN IF step.event_type \in DOMAIN EVENT_MAPPING
         THEN EVENT_MAPPING[step.event_type]
         ELSE LiteralMatch(step.event_type)
    ELSE IF step.event_type \in DOMAIN EVENT_MAPPING
    THEN EVENT_MAPPING[step.event_type]
    ELSE IF step.event_category = "hospitality"
    THEN IF step.event_type \in DOMAIN hospitality_step_map
         THEN hospitality_step_map[step.event_type]
         ELSE IF ParsesAsInt(step.event_type)
         THEN <<"funnel_step = ">> \o Strip(step.event_type)
         ELSE <<"funnel_step = 1">>
    ELSE LiteralMatch(step.event_type)

map_ui_to_sql_text(step) ==
    LET filter_clauses ==
            [i \in 1..Len(step.filters) |-> build_filter_condition_text(step.filters[i])]
    IN IF Len(filter_clauses) > 0
       THEN <<"(">> \o base_condition(step) \o <<" AND ">>
                \o Join(filter_clauses, " AND ") \o <<")">>
       ELSE <<"(">> \o base_condition(step) \o <<")">>

\* the steps the function is called with
EventTypePieces == {"a", Quote, Blank, Digit}
EventTypeTexts ==
    UNION {[1..n -> EventTypePieces] : n \in 0..MaxLen}
        \cup EVENT_MAPPING_KEYS

StepFilters ==
    {[property |-> "device_type", operator |-> "equals", value |-> StringValue(<<"a", Quote>>)],
     [property |-> "page_url", operator |-> "in",
      value |-> StringValue(<<"a", Comma, Blank, Quote>>)],
     [property |-> "funnel_step", operator |-> "greater_than", value |-> NumberValue(5)]}

StepRequests ==
    [event_category : {"generic", "hospitality", "custom", "other"},
     event_type : EventTypeTexts,
     filters : {<<>>} \cup {<<f>> : f \in StepFilters}
                  \cup {<<f, g>> : f, g \in StepFilters}]

MapUiToSql ==
    /\ call = NoCall
    /\ \E step \in StepRequests :
         /\ call' = [fn |-> "map_ui_to_sql", step |-> step]
         /\ result' = map_ui_to_sql_text(step)
    /\ UNCHANGED <<raw_events, sessions, pc, request, funneled, rows, served, step_counts,
                   metrics, response, process_state>>

(***************************************************************************)
(* config/funnel_config.py: the curated (demo) funnels                     *)
(***************************************************************************)
DEMO_FUNNEL_ID == "hospitality_booking"

ConfigStep(id, label, event_type, order) ==
    [id |-> id, label |-> label, event_category |-> "hospitality",
     event_type |-> event_type, order |-> order]

DEMO_FUNNEL_STEPS ==
    <<ConfigStep("1", "Landed", "Landed", 1),
      ConfigStep("2", "Location Select", "Location Select", 2),
      ConfigStep("3", "Date Select", "Date Select", 3),
      ConfigStep("4", "Room Select", "Room Select", 4),
      ConfigStep("5", "Payment", "Payment", 5),
      ConfigStep("6", "Confirmation", "Confirmation", 6)>>

DEMO_FUNNEL_ALTERNATE ==
    <<ConfigStep("1", "Viewed Room", "Room Select", 1),
      ConfigStep("2", "Selected Dates", "Date Select", 2),
      ConfigStep("3", "Add-on Select", "Add-on Select", 3),
      ConfigStep("4", "Initiated Checkout", "Payment", 4),
      ConfigStep("5", "Completed Booking", "Confirmation", 5)>>

DEMO_FUNNELS ==
    [id \in {DEMO_FUNNEL_ID, "hospitality_booking_alt"} |->
        IF id = DEMO_FUNNEL_ID
        THEN [id |-> DEMO_FUNNEL_ID, label |-> "Hospitality Booking Funnel",
              mode |-> "demo", steps |-> DEMO_FUNNEL_STEPS]
        ELSE [id |-> "hospitality_booking_alt", label |-> "Booking Journey (Alternate)",
              mode |-> "demo", steps |-> DEMO_FUNNEL_ALTERNATE]]

\* Optional values: None, or a value

get_demo_funnel_default(funnel_id) == Some(DEMO_FUNNELS[DEMO_FUNNEL_ID])
get_demo_funnel(funnel_id) ==
    IF funnel_id \in DOMAIN DEMO_FUNNELS THEN Some(DEMO_FUNNELS[funnel_id]) ELSE None

get_default_demo_steps == DEMO_FUNNEL_STEPS

to_funnel_step_request(step) ==
    [event_category |-> step.event_category,
     event_type |-> step.event_type,
     label |-> step.label,
     filters |-> <<>>]

(***************************************************************************)
(* engines/funnel_engine.py: resolve_funnel_steps                          *)
(***************************************************************************)
\* funnel_id is Optional[str]
NoFunnelId == "None"

\* `not steps or len(steps) == 0`
NoSteps(steps) == steps.is_none \/ Len(steps.value) = 0

ConvertSteps(steps) == [i \in 1..Len(steps) |-> to_funnel_step_request(steps[i])]

DemoSteps(funnel_id) ==
    LET funnel == get_demo_funnel(IF funnel_id \in {NoFunnelId, ""}
                                  THEN "hospitality_booking" ELSE funnel_id)
    IN IF ~funnel.is_none /\ Len(funnel.value.steps) > 0
       THEN ConvertSteps(funnel.value.steps)
       ELSE ConvertSteps(get_default_demo_steps)

resolve_funnel_steps_always_preset(mode, steps, funnel_id) ==
    IF NoSteps(steps) THEN DemoSteps(funnel_id) ELSE steps.value
resolve_funnel_steps(mode, steps, funnel_id) ==
    IF mode = "dynamic"
    THEN IF NoSteps(steps) THEN <<>> ELSE steps.value
    ELSE IF NoSteps(steps) THEN DemoSteps(funnel_id) ELSE steps.value

ResolveFunnelSteps ==
    /\ call = NoCall
    /\ \E mode \in {"demo", "dynamic", "curated", "ad-hoc", ""},
          steps \in {None, Some(<<>>)} \cup {Some(f) : f \in Funnels},
          funnel_id \in
            {NoFunnelId, "", "hospitality_booking", "hospitality_booking_alt", "unknown"} :
         /\ call' = [fn |-> "resolve_funnel_steps", mode |-> mode, steps |-> steps,
                     funnel_id |-> funnel_id]
         /\ result' = resolve_funnel_steps(mode, steps, funnel_id)
    /\ UNCHANGED <<raw_events, sessions, pc, request, funneled, rows, served, step_counts,
                   metrics, response, process_state>>

(***************************************************************************)
(* engines/funnel_engine.py: validate_funnel_results                       *)
(***************************************************************************)
\* step_counts.get(step_idx, 0) or 0
ReadCount(counts, step_idx) ==
    IF step_idx \in DOMAIN counts /\ ~counts[step_idx].is_none
    THEN counts[step_idx].value ELSE 0

OrderMessage(step_idx, curr, prev_count) ==
    <<"Step ", ToString(step_idx), " count (", ToString(curr), ") > Step ",
      ToString(step_idx - 1), " (", ToString(prev_count), ") - aggregation drift">>

PopulationMessage(step1, total) ==
    <<"Step 1 sessions (", ToString(step1), ") > total sessions in range (",
      ToString(total), ")">>

\* curr > prev_count, prev_count being float("inf") before the first step
ExceedsOrEquals(curr, prev_count) == ~prev_count.is_none /\ curr >= prev_count.value
Exceeds(curr, prev_count) == ~prev_count.is_none /\ curr > prev_count.value

RECURSIVE OrderAnomalies(_, _, _, _)
OrderAnomalies(counts, step_count, step_idx, prev_count) ==
    IF step_idx > step_count THEN <<>>
    ELSE LET curr == ReadCount(counts, step_idx)
         IN (IF Exceeds(curr, prev_count)
             THEN <<OrderMessage(step_idx, curr, prev_count.value)>> ELSE <<>>)
            \o OrderAnomalies(counts, step_count, step_idx + 1, Some(curr))

\* total_sessions_in_range is not None and step_counts.get(1)
PopulationAnomalies(counts, total_sessions_in_range) ==
    IF ~total_sessions_in_range.is_none /\ ReadCount(counts, 1) # 0
          /\ ReadCount(counts, 1) > total_sessions_in_range.value
    THEN <<PopulationMessage(ReadCount(counts, 1), total_sessions_in_range.value)>>
    ELSE <<>>

validate_funnel_results(counts, total_sessions_in_range, step_count) ==
    IF DOMAIN counts = {} \/ step_count = 0
    THEN [is_valid |-> TRUE, anomalies |-> <<>>]
    ELSE LET anomalies == OrderAnomalies(counts, step_count, 1, None)
                            \o PopulationAnomalies(counts, total_sessions_in_range)
         IN [is_valid |-> Len(anomalies) = 0, anomalies |-> anomalies]

ValidateFunnelResults ==
    /\ call = NoCall
    /\ \E K \in SUBSET (1..MaxSteps), total \in {None, Some(0), Some(3), Some(9)},
          n \in 0..MaxSteps :
       \E sc \in [K -> {None, Some(0), Some(2), Some(5)}] :
         /\ call' = [fn |-> "validate_funnel_results", step_counts |-> sc,
                     total_sessions_in_range |-> total, step_count |-> n]
         /\ result' = validate_funnel_results(sc, total, n)
    /\ UNCHANGED <<raw_events, sessions, pc, request, funneled, rows, served, step_counts,
                   metrics, response, process_state>>

\* the caller has taken the returned value
ReturnFromCall ==
    /\ call # NoCall
    /\ call' = NoCall
    /\ result' = NoResult
    /\ UNCHANGED <<raw_events, sessions, pc, request, funneled, rows, served, step_counts,
                   metrics, response, process_state>>

EngineNext ==
    ResolveFunnelSteps \/ BuildFilterCondition \/ MapUiToSql \/ ValidateFunnelResults
        \/ ReturnFromCall

EngineSpec == Init /\ [][EngineNext]_vars

(***************************************************************************)
(* get_funnel_data from the request as received: the steps are resolved    *)
(* from funnel_mode and funnel_id before anything else; the store answers  *)
(* with any rows.                                                          *)
(***************************************************************************)
ReceivedRequests ==
    [steps_raw : {<<>>} \cup Funnels,
     funnel_mode : {"demo", "dynamic", "curated"},
     funnel_id : {NoFunnelId, "hospitality_booking_alt"}]

\* the request the rest of the handler works with: _steps replaces request.steps
WithResolvedSteps(received, steps_to_use) ==
    [steps |-> steps_to_use, completed_within |-> 1, counting_by |-> "unique_users",
     segments |-> <<>>, group_by |-> NoGroupBy,
     steps_raw |-> received.steps_raw, funnel_mode |-> received.funnel_mode,
     funnel_id |-> received.funnel_id]

ResolveReceived(received) ==
    resolve_funnel_steps(IF received.funnel_mode = "" THEN "demo" ELSE received.funnel_mode,
                         IF received.steps_raw # <<>> THEN Some(received.steps_raw) ELSE None,
                         received.funnel_id)

\* step_count == 0: data = [] is returned before any query is built
RespondNoSteps(req) ==
    /\ request' = req
    /\ funneled' = <<>>
    /\ rows' = <<>>
    /\ served' = <<>>
    /\ step_counts' = EmptyDict
    /\ metrics' = <<>>
    /\ response' = [data |-> <<>>, has_segments |-> FALSE]
    /\ pc' = "responded"
    /\ UNCHANGED <<raw_events, sessions, call, result, process_state>>

GetFunnelDataResolved ==
    /\ pc = "idle"
    /\ \E received \in ReceivedRequests :
         LET steps_to_use == ResolveReceived(received)
             req == WithResolvedSteps(received, steps_to_use)
         IN IF Len(steps_to_use) = 0
            THEN RespondNoSteps(req)
            ELSE \E a \in RowLists(MaxRows, Len(steps_to_use)) :
                    RespondUngrouped(req, <<>>, <<a>>)

ResolveNext == GetFunnelDataResolved \/ Return

ResolveSpec == Init /\ [][ResolveNext]_vars

(***************************************************************************)
(* Properties                                                              *)
(***************************************************************************)
Responded == pc = "responded"
Ungrouped == Responded /\ ~response.has_segments
StepCount == Len(request.steps)
Visitors(i) == response.data[i].visitors

\* the rows of one session that a query selected, and those that satisfy
\* some step predicate
SessionEvents(s) == {e \in served[1].raw_events : e.session_id = s /\ InDataWindow(e, request)}
Matching(s) ==
    {e \in SessionEvents(s) : \E k \in 1..StepCount : map_ui_to_sql(request.steps[k], e)}
OnlyStep(e, k) ==
    \A j \in 1..StepCount : map_ui_to_sql(request.steps[j], e) <=> j = k

NonNegativeRows ==
    \A k \in 1..Len(rows) : \A i \in 1..Len(rows[k]) : rows[k][i][2] >= 0

\* C1: for an ungrouped funnel of N >= 2 steps and store rows with levels in
\* 0..N and non-negative counts, the derived per-step counts never increase:
\* StepReach[i] >= StepReach[i+1] for every i in 1..N-1.
Monotonicity ==
    (Ungrouped /\ StepCount >= 2 /\ NonNegativeRows)
        => \A i \in 1..(StepCount - 1) : Visitors(i) >= Visitors(i + 1)

MonotonicityWitness ==
    /\ Ungrouped /\ StepCount >= 2 /\ NonNegativeRows
    /\ Len(rows[1]) >= 2
    /\ rows[1][1][1] < rows[1][2][1]
    /\ Visitors(1) > Visitors(2)
    /\ Visitors(2) > 0

\* C2 as stated: a session whose only matching events are a step-2 event
\* followed later by a step-1 event has funnel level 0.
WrongOrder(s) ==
    /\ StepCount = 2
    /\ \E e1, e2 \in SessionEvents(s) :
         /\ Matching(s) = {e1, e2}
         /\ OnlyStep(e1, 2) /\ OnlyStep(e2, 1)
         /\ e1.timestamp < e2.timestamp

WrongOrderLevelZero ==
    Ungrouped => \A s \in DOMAIN funneled[1] : WrongOrder(s) => funneled[1][s] = 0

\* C2 amended: a session whose only matching events are a step-2 event
\* followed later by a step-1 event has funnel level 1: the step-1 event
\* counts, the earlier step-2 event does not.
WrongOrderLevelOne ==
    Ungrouped => \A s \in DOMAIN funneled[1] : WrongOrder(s) => funneled[1][s] = 1

WrongOrderWitness ==
    Ungrouped /\ \E s \in DOMAIN funneled[1] : WrongOrder(s) /\ funneled[1][s] = 1

\* C3: with a step-1 event at time 0 and a step-2 event at time t as the only
\* matching events of a session and window = completed_within * 86400: the
\* level is 2 when t = window (inclusive bound) and 1 when t = window + 1.
StepOneThenTwo(s, t) ==
    /\ StepCount >= 2
    /\ \E e1, e2 \in SessionEvents(s) :
         /\ Matching(s) = {e1, e2}
         /\ OnlyStep(e1, 1) /\ OnlyStep(e2, 2)
         /\ e1.timestamp = 0 /\ e2.timestamp = t

WindowBoundary ==
    Ungrouped => \A s \in DOMAIN funneled[1] :
        /\ StepOneThenTwo(s, request.completed_within * 86400) => funneled[1][s] = 2
        /\ StepOneThenTwo(s, request.completed_within * 86400 + 1) => funneled[1][s] = 1

WindowBoundaryWitness ==
    Ungrouped /\ \E s \in DOMAIN funneled[1] :
        StepOneThenTwo(s, request.completed_within * 86400) /\ funneled[1][s] = 2

WindowPastWitness ==
    Ungrouped /\ \E s \in DOMAIN funneled[1] :
        StepOneThenTwo(s, request.completed_within * 86400 + 1) /\ funneled[1][s] = 1

\* C4: steps cannot be skipped.  A session none of whose events satisfies
\* predicate k has level < k; in a 3-step funnel a session whose matching
\* events are a step-1 event and a later step-3 event has level 1, is counted
\* at step 1 and at no later step.
NeverSatisfies(s, k) ==
    \A e \in SessionEvents(s) : ~map_ui_to_sql(request.steps[k], e)

StepOneThenThree(s) ==
    /\ StepCount = 3
    /\ \E e1, e3 \in SessionEvents(s) :
         /\ Matching(s) = {e1, e3}
         /\ OnlyStep(e1, 1) /\ OnlyStep(e3, 3)
         /\ e1.timestamp < e3.timestamp

NoSkipping ==
    Ungrouped => \A s \in DOMAIN funneled[1] :
        /\ \A k \in 1..StepCount : NeverSatisfies(s, k) => funneled[1][s] < k
        /\ StepOneThenThree(s) =>
              /\ funneled[1][s] = 1
              /\ (DOMAIN funneled[1] = {s}) =>
                    Visitors(1) = 1 /\ Visitors(2) = 0 /\ Visitors(3) = 0

NoSkippingWitness ==
    /\ Ungrouped
    /\ \E s \in DOMAIN funneled[1] :
         /\ StepOneThenThree(s)
         /\ DOMAIN funneled[1] = {s}
         /\ funneled[1][s] = 1
    /\ Visitors(1) = 1 /\ Visitors(3) = 0

\* C5 as stated: for every step i > 1 whose previous step count is 0 the
\* reported conversion_rate is exactly 0.0 (ungrouped and named-segment paths).
ZeroPopulationGuard ==
    Responded => \A i \in 2..StepCount :
        Visitors(i - 1) = 0 => response.data[i].conversion_rate = 0

\* C6: whatever the store returned (no rows at all included), the first
\* step reports conversion_rate 100.0 and drop_off_rate 0.0.
StepOneConvention ==
    (Responded /\ StepCount >= 1)
        => /\ response.data[1].conversion_rate = 1000
           /\ response.data[1].drop_off_rate = 0

StepOneConventionWitness ==
    /\ Responded /\ StepCount >= 1
    /\ \A k \in 1..Len(rows) : rows[k] = <<>>
    /\ Visitors(1) = 0
    /\ response.data[1].conversion_rate = 1000

\* C7 as stated: for every step i > 1 whose previous step count is positive,
\* conversion_rate[i] = StepReach[i] / StepReach[i-1] * 100 and
\* conversion_rate[i] + drop_off_rate[i] = 100; StepReach = [100, 60, 30] is
\* reported as conversion_rate [100.0, 60.0, 50.0] and drop_off_rate
\* [0.0, 40.0, 50.0].  The reported rates are in tenths of a percent: the
\* reported conversion_rate is the tenth nearest to the quotient (either
\* neighbour when the quotient is half way), and the two reported rates add
\* up to 100.0.
ScenarioA ==
    StepCount = 3 /\ Visitors(1) = 100 /\ Visitors(2) = 60 /\ Visitors(3) = 30

AbsDiff(a, b) == IF a >= b THEN a - b ELSE b - a

ConversionFormula ==
    Responded =>
        /\ \A i \in 2..StepCount :
              Visitors(i - 1) > 0 =>
                 /\ 2 * AbsDiff(response.data[i].conversion_rate * Visitors(i - 1),
                                1000 * Visitors(i))
                       <= Visitors(i - 1)
                 /\ response.data[i].conversion_rate + response.data[i].drop_off_rate = 1000
        /\ ScenarioA =>
              /\ response.data[1].conversion_rate = 1000
              /\ response.data[2].conversion_rate = 600
              /\ response.data[3].conversion_rate = 500
              /\ response.data[1].drop_off_rate = 0
              /\ response.data[2].drop_off_rate = 400
              /\ response.data[3].drop_off_rate = 500

\* C8: for every step i and every vector of step counts, monotone or not,
\* revenue_at_risk[i] = max(0, current - next) * 260.0 with next = current at
\* the last step: never negative, 0 at the last step, 7800.0 for current 60
\* and next 30.
ExpectedDropped(i) ==
    IF i < StepCount
    THEN (IF Visitors(i) > Visitors(i + 1) THEN Visitors(i) - Visitors(i + 1) ELSE 0)
    ELSE 0

RevenueFloor ==
    Responded => \A i \in 1..StepCount :
        /\ response.data[i].revenue_at_risk = ExpectedDropped(i) * 260
        /\ response.data[i].revenue_at_risk >= 0
        /\ (i < StepCount /\ Visitors(i) = 60 /\ Visitors(i + 1) = 30)
              => response.data[i].revenue_at_risk = 7800

RevenueFloorWitness ==
    /\ Responded /\ StepCount = 3
    /\ Visitors(1) < Visitors(2) /\ response.data[1].revenue_at_risk = 0
    /\ Visitors(2) = 60 /\ Visitors(3) = 30 /\ response.data[2].revenue_at_risk = 7800
    /\ response.data[3].revenue_at_risk = 0

\* C9 as stated: for every named segment and every counting mode the
\* segment's step-1 count is <= the step-1 count of the same funnel computed
\* without segments over the same events.
\* k: the query of segment k, over the events that query read
UngroupedStepOne(k) ==
    LET req == [request EXCEPT !.segments = <<>>]
    IN StepTotal(ProcessRows(EmptyDict, UngroupedQuery(served[k].raw_events, req),
                             Len(req.steps), "all"), 1)

SegmentWithinTotal ==
    (Responded /\ response.has_segments) =>
        \A k \in 1..Len(request.segments) :
            Get(response.data[1].segments, request.segments[k].name, 0) <= UngroupedStepOne(k)

\* C10 as stated: under unique_users without grouping the count of step i is
\* the number of distinct user_ids owning a session of funnel level >= i.
UsersReaching(i) ==
    {e.user_id : e \in {x \in served[1].raw_events :
        x.session_id \in DOMAIN funneled[1] /\ funneled[1][x.session_id] >= i}}

UniqueUsersCount ==
    (Ungrouped /\ request.counting_by = "unique_users") =>
        \A i \in 1..StepCount : Visitors(i) = Cardinality(UsersReaching(i))

\* C11 as stated: under counting mode events without grouping the step-1
\* count is the number of event rows satisfying step 1, so a session with
\* several such rows contributes more than 1.
StepOneRows ==
    {e \in served[1].raw_events : InDataWindow(e, request) /\ map_ui_to_sql(request.steps[1], e)}

EventsModeCountsRows ==
    (Ungrouped /\ request.counting_by = "events") =>
        Visitors(1) = Cardinality(StepOneRows)

\* C12 as stated: with group_by and exactly one row of table sessions for
\* every session, for every counting mode and every step the grouped counts
\* summed over the groups equal the count of the same funnel computed
\* without grouping over the same events.
OneValuePerSession ==
    \A s \in {e.session_id : e \in served[1].raw_events} :
        Cardinality({r \in served[1].sessions : r.session_id = s}) = 1

UngroupedStepReach(i) ==
    LET req == [request EXCEPT !.group_by = NoGroupBy]
    IN StepTotal(ProcessRows(EmptyDict, UngroupedQuery(served[1].raw_events, req),
                             Len(req.steps), "all"), i)

GroupedSumsEqualUngrouped ==
    (Responded /\ request.group_by # NoGroupBy /\ OneValuePerSession) =>
        \A i \in 1..StepCount :
            SumValues(Get(step_counts, i, EmptyDict)) = UngroupedStepReach(i)

\* C13: in demo (curated) mode resolve_funnel_steps returns non-empty
\* provided steps unchanged; with empty or absent steps it returns the steps
\* of the preset named by funnel_id, converted in preset order, and the six
\* steps of hospitality_booking when funnel_id is absent or names no preset.
Resolved == call.fn = "resolve_funnel_steps"

EventTypesOf(steps) == [i \in 1..Len(steps) |-> steps[i].event_type]
LabelsOf(steps) == [i \in 1..Len(steps) |-> steps[i].label]

IsBookingPreset(steps) ==
    /\ EventTypesOf(steps) = <<"Landed", "Location Select", "Date Select",
                               "Room Select", "Payment", "Confirmation">>
    /\ LabelsOf(steps) = EventTypesOf(steps)

IsAlternatePreset(steps) ==
    /\ EventTypesOf(steps) = <<"Room Select", "Date Select", "Add-on Select",
                               "Payment", "Confirmation">>
    /\ LabelsOf(steps) = <<"Viewed Room", "Selected Dates", "Add-on Select",
                           "Initiated Checkout", "Completed Booking">>

IsConverted(steps) ==
    \A i \in 1..Len(steps) :
        /\ DOMAIN steps[i] = {"event_category", "event_type", "label", "filters"}
        /\ steps[i].event_category = "hospitality"
        /\ steps[i].filters = <<>>

CuratedResolution ==
    (Resolved /\ call.mode = "demo") =>
        IF ~call.steps.is_none /\ call.steps.value # <<>>
        THEN result = call.steps.value
        ELSE /\ IsConverted(result)
             /\ IF call.funnel_id = "hospitality_booking_alt"
                THEN IsAlternatePreset(result)
                ELSE IsBookingPreset(result) /\ Len(result) = 6

CuratedResolutionWitness ==
    /\ Resolved /\ call.mode = "demo" /\ call.steps = Some(<<>>)
    /\ call.funnel_id = "hospitality_booking_alt"
    /\ Len(result) = 5 /\ result[1].label = "Viewed Room"

CuratedDefaultWitness ==
    /\ Resolved /\ call.mode = "demo" /\ call.steps = None
    /\ call.funnel_id = "unknown"
    /\ Len(result) = 6 /\ result[6].event_type = "Confirmation"

\* C14 as stated: for every mode other than demo and dynamic and every
\* provided steps (empty or not), resolve_funnel_steps returns what demo
\* mode returns for no provided steps and the same funnel_id.
UnknownModeIsCuratedDefault ==
    (Resolved /\ call.mode \notin {"demo", "dynamic"}) =>
        result = resolve_funnel_steps("demo", None, call.funnel_id)

\* C15: in dynamic mode with an empty step list resolve_funnel_steps returns
\* the empty list, and get_funnel_data answers with data = [] without
\* running any query.
QueriesRun == Len(rows)

EmptyDynamicFunnel ==
    (Responded /\ "funnel_mode" \in DOMAIN request
        /\ request.funnel_mode = "dynamic" /\ request.steps_raw = <<>>)
      => (request.steps = <<>> /\ response.data = <<>> /\ QueriesRun = 0)

EmptyDynamicFunnelWitness ==
    /\ Responded /\ "funnel_mode" \in DOMAIN request
    /\ request.funnel_mode = "dynamic" /\ request.steps_raw = <<>>
    /\ response.data = <<>>

\* C16: for a boolean, numeric or string value and every operator outside
\* the 14 listed ones build_filter_condition returns the clause it returns
\* for operator equals with the same property and value.
FilterBuilt == call.fn = "build_filter_condition"

UnlistedOperatorIsEquals ==
    (FilterBuilt /\ call.filter_obj.operator \notin ListedOperators
        /\ call.filter_obj.value.type \in {"bool", "number", "str"})
      => /\ result = build_filter_condition_text(
                        [call.filter_obj EXCEPT !.operator = "equals"])
         /\ Len(result) >= 3
         /\ result[1] = call.filter_obj.property /\ result[2] = " = "

UnlistedOperatorWitness ==
    /\ FilterBuilt /\ call.filter_obj.operator = "regex"
    /\ call.filter_obj.value = StringValue(<<"a", Quote>>)
    /\ result = <<"device_type", " = ", Quote, "a", Quote, Quote, Quote>>

\* C17 as stated: for every step whose event_type is no key of EVENT_MAPPING
\* and, when its category is hospitality, does not parse as an integer, the
\* base condition is the literal match event_type = '<escaped event_type>',
\* whatever the event_category.
MapCalled == call.fn = "map_ui_to_sql"

BaseOf(text, step) ==
    SubSeq(text, 2, Len(text) - 1 -
        (IF Len(step.filters) > 0
         THEN 1 + Len(Join([i \in 1..Len(step.filters) |->
                              build_filter_condition_text(step.filters[i])], " AND "))
         ELSE 0))

UnmappedIsLiteralMatch ==
    (MapCalled /\ call.step.event_type \notin EVENT_MAPPING_KEYS
        /\ (call.step.event_category = "hospitality" => ~ParsesAsInt(call.step.event_type)))
      => BaseOf(result, call.step)
            = <<"event_type = ", Quote>> \o EscapeQuotes(call.step.event_type) \o <<Quote>>

\* run_query hands the text to ClickHouse (client.query).  ClickHouse reads a
\* string literal from a quote to the next quote that is neither doubled nor
\* preceded by a backslash: inside a literal '' and \' stand for one quote,
\* \\ for one backslash, \a and \b for one control character, and a
\* backslash before any other modelled character stays with that character.
Unescaped(c) ==
    CASE c = Quote -> <<Quote>>
      [] c = Backslash -> <<Backslash>>
      [] c = "a" -> <<"\\a">>
      [] c = "b" -> <<"\\b">>
      [] OTHER -> <<Backslash, c>>

RECURSIVE LexFrom(_, _, _, _)
LexFrom(s, inside, cur, acc) ==
    IF s = <<>> THEN [literals |-> acc, open |-> inside]
    ELSE IF Head(s) = Quote
    THEN IF ~inside THEN LexFrom(Tail(s), TRUE, <<>>, acc)
         ELSE IF Len(s) >= 2 /\ s[2] = Quote
         THEN LexFrom(Tail(Tail(s)), TRUE, Append(cur, Quote), acc)
         ELSE LexFrom(Tail(s), FALSE, <<>>, Append(acc, cur))
    ELSE IF inside /\ Head(s) = Backslash
    THEN IF Len(s) >= 2
         THEN LexFrom(Tail(Tail(s)), TRUE, cur \o Unescaped(s[2]), acc)
         ELSE LexFrom(Tail(s), TRUE, Append(cur, Backslash), acc)
    ELSE LexFrom(Tail(s), inside, IF inside THEN Append(cur, Head(s)) ELSE cur, acc)
Lex(text) == LexFrom(text, FALSE, <<>>, <<>>)

StrippedParts(s) == LET parts == Split(s) IN [i \in 1..Len(parts) |-> Strip(parts[i])]

ExpectedLiterals(f) ==
    IF f.operator \in {"is_null", "is_not_null"} \/ f.value.type \in {"bool", "number"}
    THEN <<>>
    ELSE IF f.operator \in {"contains", "not_contains"} THEN <<<<"%">> \o Str(f.value) \o <<"%">>>>
    ELSE IF f.operator = "starts_with" THEN <<Str(f.value) \o <<"%">>>>
    ELSE IF f.operator = "ends_with" THEN <<<<"%">> \o Str(f.value)>>
    ELSE IF f.operator \in {"in", "not_in"}
    THEN (IF f.value.type = "list" THEN f.value.l ELSE StrippedParts(f.value.s))
    ELSE <<Str(f.value)>>

RECURSIVE ExpectedFilterLiterals(_)
ExpectedFilterLiterals(fs) ==
    IF fs = <<>> THEN <<>>
    ELSE ExpectedLiterals(Head(fs)) \o ExpectedFilterLiterals(Tail(fs))

HasLiteralBase(step) ==
    /\ step.event_type \notin EVENT_MAPPING_KEYS
    /\ step.event_category # "hospitality"

\* C18 as stated: every string that build_filter_condition and map_ui_to_sql
\* place inside a quoted literal (the step event_type, a string filter value,
\* each element of an in / not_in list or comma-delimited string) has each
\* single quote doubled, so that no value can terminate its enclosing
\* literal: the store reads from the clause exactly the literals that were
\* put in, and the clause ends outside every literal.
QuotesDoubled ==
    /\ FilterBuilt =>
         Lex(result) = [literals |-> ExpectedLiterals(call.filter_obj), open |-> FALSE]
    /\ MapCalled =>
         Lex(result) =
            [literals |-> (IF HasLiteralBase(call.step) THEN <<call.step.event_type>> ELSE <<>>)
                            \o ExpectedFilterLiterals(call.step.filters),
             open |-> FALSE]

\* C19: for every step_count >= 1 and every step_counts map, missing and
\* None entries read as 0, validate_funnel_results returns exactly one
\* ordering anomaly for each i in 2..step_count with
\* step_reach[i] > step_reach[i-1], in step order, none for step 1, and
\* is_valid is true iff the anomaly list is empty.
Validated == call.fn = "validate_funnel_results"

StepReach(i) ==
    IF i \in DOMAIN call.step_counts /\ ~call.step_counts[i].is_none
    THEN call.step_counts[i].value ELSE 0

IsOrderMessage(msg) == msg[Len(msg)] = ") - aggregation drift"
OrderMessages == SelectSeq(result.anomalies, IsOrderMessage)

RECURSIVE IncreasesFrom(_)
IncreasesFrom(i) ==
    IF i > call.step_count THEN <<>>
    ELSE (IF StepReach(i) > StepReach(i - 1) THEN <<ToString(i)>> ELSE <<>>)
         \o IncreasesFrom(i + 1)

OrderAnomaliesExact ==
    (Validated /\ call.step_count >= 1) =>
        /\ [k \in 1..Len(OrderMessages) |-> OrderMessages[k][2]] = IncreasesFrom(2)
        /\ result.is_valid <=> (result.anomalies = <<>>)

OrderAnomaliesWitness ==
    /\ Validated /\ call.step_count = 3
    /\ 2 \notin DOMAIN call.step_counts
    /\ 1 \in DOMAIN call.step_counts /\ call.step_counts[1] = None
    /\ 3 \in DOMAIN call.step_counts /\ call.step_counts[3] = Some(5)
    /\ call.total_sessions_in_range = None
    /\ result = [is_valid |-> FALSE,
                 anomalies |-> <<<<"Step ", "3", " count (", "5", ") > Step ", "2",
                                   " (", "0", ") - aggregation drift">>>>]

\* C20 as stated: whenever a population bound is supplied and
\* step_reach[1] > total_population, is_valid is false and the result holds
\* a population anomaly, for every step_count, 0 included.
HasPopulationMessage ==
    \E k \in 1..Len(result.anomalies) : result.anomalies[k][1] = "Step 1 sessions ("

PopulationBoundEnforced ==
    (Validated /\ ~call.total_sessions_in_range.is_none
        /\ StepReach(1) > call.total_sessions_in_range.value)
      => (~result.is_valid /\ HasPopulationMessage)

(***************************************************************************)
(* POST /api/funnel/path-analysis (get_path_analysis).  The handler works  *)
(* on request.steps as received; for every step but the last it runs one   *)
(* query: dropped_users, then the events of those sessions from their last *)
(* step event on, grouped by event type.  run_query raises when the store  *)
(* fails; the handler's only try block turns any exception into            *)
(* HTTPException(500).  Events carry no page_url and no element_text, so   *)
(* a group is an event type.                                               *)
(***************************************************************************)
MaxPathEvents == 3

PathEventTypeNames == <<"page_view", "payment_failed", "exit_intent">>
\* instants around the completion window of one day
PathTimes == {0, 1, SecondsPerDay + 1}
\* the event types of the log
PathEventTypes == {PathEventTypeNames[i] : i \in 1..2}
PathEvents ==
    {[session_id |-> s, user_id |-> s, timestamp |-> t,
      event_type |-> PathEventTypeNames[i], device_type |-> "mobile"] :
        s \in Sessions, t \in PathTimes, i \in 1..2}

PathFunnels == {[i \in 1..n |-> Step(PathEventTypeNames[i])] : n \in 1..MaxSteps}

\* FunnelRequest as received by a derived endpoint
DerivedRequests ==
    [steps_raw : {<<>>} \cup PathFunnels, funnel_mode : {"demo", "dynamic"},
     funnel_id : {NoFunnelId, "hospitality_booking_alt"}, completed_within : {1}]

\* the keywords of the categories that lower(event_type) contains
KeywordsIn(event_type) ==
    CASE event_type = "payment_failed" -> {"payment"}
      [] event_type = "exit_intent" -> {"exit"}
      [] OTHER -> {}

\* re2: a next-step event of the same session after e, within completed_within days
NextStepFollows(db, e, next_step, req) ==
    \E re2 \in db :
        /\ re2.session_id = e.session_id
        /\ re2.timestamp > e.timestamp
        /\ re2.timestamp <= e.timestamp + req.completed_within * SecondsPerDay
        /\ map_ui_to_sql(next_step, re2)

\* WITH dropped_users AS (SELECT DISTINCT re.session_id ... AND NOT EXISTS (...))
dropped_users(db, step, next_step, req) ==
    {e.session_id : e \in {re \in db : /\ InDataWindow(re, req)
                                       /\ map_ui_to_sql(step, re)
                                       /\ ~NextStepFollows(db, re, next_step, req)}}

\* SELECT max(timestamp) FROM raw_events WHERE session_id = du.session_id AND <step>
LastStepTime(db, session_id, step) ==
    LET ts == {e.timestamp : e \in {x \in db : x.session_id = session_id
                                               /\ map_ui_to_sql(step, x)}}
    IN CHOOSE m \in ts : \A x \in ts : m >= x

\* dropped_users du INNER JOIN raw_events re ... WHERE re.timestamp >= (SELECT max ...)
PathJoin(db, step, next_step, req) ==
    {re \in db : /\ re.session_id \in dropped_users(db, step, next_step, req)
                 /\ re.timestamp >= LastStepTime(db, re.session_id, step)}

\* GROUP BY re.event_type ...: (event_type, count(*))
PathGroups(db, step, next_step, req) ==
    LET joined == PathJoin(db, step, next_step, req)
    IN {<<t, Cardinality({re \in joined : re.event_type = t})>> :
            t \in {re.event_type : re \in joined}}

\* ORDER BY <count> DESC LIMIT limit over rows whose second column is the count:
\* every order that ORDER BY allows, rows of equal count in any order
TopRows(groups, limit) ==
    LET n == Cardinality(groups)
        k == IF n < limit THEN n ELSE limit
    IN {rs \in [1..k -> groups] :
           /\ \A i, j \in 1..k : i < j => (rs[i] # rs[j] /\ rs[i][2] >= rs[j][2])
           /\ \A g \in groups : (\A i \in 1..k : rs[i] # g) => \A i \in 1..k : rs[i][2] >= g[2]}

\* ORDER BY event_count DESC LIMIT 20
PathQuery(db, step, next_step, req) == TopRows(PathGroups(db, step, next_step, req), 20)

\* the first n elements of a list: xs[:n]
Take(xs, n) == SubSeq(xs, 1, IF Len(xs) < n THEN Len(xs) ELSE n)

\* [p for p in paths if keep(p)]
RECURSIVE SelectPaths(_, _)
SelectPaths(paths, kept) ==
    IF paths = <<>> THEN <<>>
    ELSE IF Head(paths).event_type \in kept
         THEN <<Head(paths)>> \o SelectPaths(Tail(paths), kept)
         ELSE SelectPaths(Tail(paths), kept)

PathEntry(steps, idx, path_rows) ==
    LET paths == [i \in 1..Len(path_rows) |->
                    [event_type |-> path_rows[i][1], count |-> path_rows[i][2]]]
        types == {paths[i].event_type : i \in 1..Len(paths)}
    IN [step_name |-> steps[idx].label,
        step_index |-> idx,
        next_step |-> steps[idx + 1].label,
        total_paths |-> Len(paths),
        exit_paths |-> Take(SelectPaths(paths,
                          {t \in types : KeywordsIn(t) \cap {"exit", "session_end"} # {}}), 5),
        retry_paths |-> Take(SelectPaths(paths,
                          {t \in types : KeywordsIn(t) \cap {"payment", "promo", "discount"} # {}}), 5),
        navigation_paths |-> Take(SelectPaths(paths, types \cap {"page_view", "click"}), 10),
        all_paths |-> Take(paths, 15)]

\* the request a derived endpoint works with: request.steps as received
AsReceived(endpoint, received) ==
    [endpoint |-> endpoint, steps |-> received.steps_raw,
     completed_within |-> received.completed_within,
     steps_raw |-> received.steps_raw, funnel_mode |-> received.funnel_mode,
     funnel_id |-> received.funnel_id]

\* the handler returns or raises: what the client receives
\* dbs: table raw_events as each answered query read it; stores: the tables
\* the handler can return on
RespondDerived(req, dropped, answers, resp, dbs, stores) ==
    /\ request' = req
    /\ funneled' = dropped
    /\ rows' = answers
    /\ served' = [k \in 1..Len(dbs) |-> Store(dbs[k], sessions)]
    /\ step_counts' = EmptyDict
    /\ metrics' = <<>>
    /\ response' = resp
    /\ pc' = "responded"
    /\ \E store \in stores :
         /\ raw_events' = store.raw_events
         /\ sessions' = store.sessions
    /\ UNCHANGED <<call, result, process_state>>

\* failing = 0: every query is answered; failing = k: run_query raises at query k
GetPathAnalysis ==
    /\ pc = "idle"
    /\ \E received \in DerivedRequests :
         LET req == AsReceived("path-analysis", received)
             steps == req.steps
             step_count == Len(steps)
         IN IF step_count = 0
            THEN RespondDerived(req, <<>>, <<>>, [status |-> 200, data |-> <<>>], <<>>,
                                {Store(raw_events, sessions)})
            ELSE \E failing \in 0..(step_count - 1) :
                   LET ran == IF failing = 0 THEN step_count - 1 ELSE failing - 1
                       sent == IF failing = 0 THEN ran ELSE failing
                   IN \E trip \in Trips(raw_events, sent, EventStatements(PathEvents),
                                        MaxPathEvents, MaxStatements) :
                        LET dbs == SubSeq(trip.read, 1, ran)
                            orders == [i \in 1..ran |->
                                         PathQuery(dbs[i], steps[i], steps[i + 1], req)]
                        IN \E answers \in [1..ran -> UNION {orders[i] : i \in 1..ran}] :
                             /\ \A i \in 1..ran : answers[i] \in orders[i]
                             /\ RespondDerived(req,
                                   [i \in 1..ran |->
                                      dropped_users(dbs[i], steps[i], steps[i + 1], req)],
                                   answers,
                                   IF failing = 0
                                   THEN [status |-> 200,
                                         data |-> [i \in 1..ran |->
                                                     PathEntry(steps, i, answers[i])]]
                                   ELSE [status |-> 500, data |-> <<>>],
                                   dbs,
                                   IF sent = 0 THEN {Store(raw_events, sessions)}
                                   ELSE AfterTrip(trip, EventStatements(PathEvents),
                                                  MaxPathEvents))

IngestPathEvent == Ingest(PathEvents, MaxPathEvents)
QueryPathEvent == QueryEvents(EventStatements(PathEvents), MaxPathEvents)

DerivedNext == IngestPathEvent \/ QueryPathEvent \/ GetPathAnalysis \/ Return

DerivedSpec == Init /\ [][DerivedNext]_vars

\* a path-analysis request has been answered
PathAnswered == pc = "responded" /\ request.endpoint = "path-analysis"

\* one of the handler's queries raised: fewer queries were answered than steps need
QueryFailed == Len(request.steps) > 0 /\ Len(rows) < Len(request.steps) - 1

\* C21: when a store query of a derived analysis fails, the failure is caught
\* locally: the endpoint still returns a success result that contains the data
\* of the steps whose queries succeeded.
StoreFailureIsLocal ==
    (PathAnswered /\ QueryFailed)
      => /\ response.status = 200
         /\ Len(response.data) >= Len(rows)
         /\ \A i \in 1..Len(rows) : response.data[i] = PathEntry(request.steps, i, rows[i])

\* C24: every session selected as dropped at step i has a step-i event and no
\* step-(i+1) event after any of its step-i events within completed_within
\* days, also when the session has several step-i events.
DroppedNeverReachedNext ==
    PathAnswered
      => \A i \in 1..Len(funneled) : \A s \in funneled[i] :
            /\ \E e \in served[i].raw_events : e.session_id = s /\ map_ui_to_sql(request.steps[i], e)
            /\ \A e \in served[i].raw_events :
                 (e.session_id = s /\ map_ui_to_sql(request.steps[i], e))
                    => ~\E e2 \in served[i].raw_events :
                          /\ e2.session_id = s
                          /\ map_ui_to_sql(request.steps[i + 1], e2)
                          /\ e2.timestamp > e.timestamp
                          /\ e2.timestamp <= e.timestamp + request.completed_within * SecondsPerDay

\* C30: a derived endpoint evaluates the step list that get_funnel_data obtains
\* from the step resolver for the same mode, provided steps and preset id; a
\* curated request without steps is evaluated on the preset's steps.
DerivedStepsAreResolved ==
    PathAnswered => request.steps = ResolveReceived(request)

(***************************************************************************)
(* get_funnel_data with the per-step time query (api.py:1322-1387).  After *)
(* the metrics of a step are computed the handler runs one more query for  *)
(* the step, inside a try block of its own.  The store answers every query *)
(* with any rows; a time value is None, NaN (avg over no rows) or a whole  *)
(* number of seconds, which round(x, 1) leaves as it is.                   *)
(***************************************************************************)
NoValue == [tag |-> "none", n |-> 0]
NaN == [tag |-> "nan", n |-> 0]
Seconds(n) == [tag |-> "num", n |-> n]

\* bool(v): None and 0 are false, NaN is true
Truthy(v) == v.tag = "nan" \/ (v.tag = "num" /\ v.n # 0)
\* v > 0: false for NaN
Positive(v) == v.tag = "num" /\ v.n > 0

\* what run_query(time_query) does: it raises, or returns no row, or one row
TimeOutcomes ==
    {[raised |-> TRUE, rows |-> <<>>], [raised |-> FALSE, rows |-> <<>>]}
      \cup {[raised |-> FALSE, rows |-> <<<<avg, median>>>>] :
               avg \in {NoValue, NaN, Seconds(0), Seconds(45)},
               median \in {NoValue, Seconds(40)}}

\* 120 + (idx * 30), idx counted from 0; the mutant counts from 1
FallbackTimeFromOne(idx) == 120 + ((idx + 1) * 30)
FallbackTime(idx) == 120 + (idx * 30)

\* avg_time_seconds and median_time_seconds of step idx (from 0)
StepTimes(idx, outcome) ==
    IF outcome.raised
    THEN [avg_time_seconds |-> FallbackTime(idx), median_time_seconds |-> FallbackTime(idx)]
    ELSE LET time_rows == outcome.rows
             found == /\ Len(time_rows) > 0
                      /\ Truthy(time_rows[1][1])
                      /\ Positive(time_rows[1][1])
             avg == IF found THEN time_rows[1][1].n ELSE 0
             median == IF found
                       THEN IF Truthy(time_rows[1][2]) THEN time_rows[1][2].n ELSE avg
                       ELSE 0
         IN IF avg = 0
            THEN [avg_time_seconds |-> FallbackTime(idx),
                  median_time_seconds |-> FallbackTime(idx)]
            ELSE [avg_time_seconds |-> avg, median_time_seconds |-> median]

\* f"{minutes}m {seconds}s"
FormatTime(avg_time_seconds) ==
    <<ToString(avg_time_seconds \div 60), "m ", ToString(avg_time_seconds % 60), "s">>

TimedEntry(step, m, segments_out, times) ==
    [step_name |-> step.label,
     event_type |-> step.event_type,
     visitors |-> m.current_count,
     conversion_rate |-> Round1(m.conversion_rate),
     drop_off_rate |-> Round1(m.drop_off_rate),
     revenue_at_risk |-> m.revenue_at_risk,
     avg_time |-> FormatTime(times.avg_time_seconds),
     avg_time_seconds |-> times.avg_time_seconds,
     median_time_seconds |-> times.median_time_seconds,
     segments |-> segments_out]

\* POST /api/funnel without segments and group_by: the funnel query, then one
\* time query per step
GetFunnelDataTimed ==
    /\ pc = "idle"
    /\ \E req \in StoreRequests({<<>>}) :
         \E a \in RowLists(1, Len(req.steps)) :
         \E outcomes \in [1..Len(req.steps) -> TimeOutcomes] :
            LET step_count == Len(req.steps)
                sc == ProcessRows(EmptyDict, a, step_count, "all")
                ms == AllMetrics(sc, step_count)
            IN /\ request' = req
               /\ funneled' = <<>>
               /\ rows' = <<a>> \o outcomes
               /\ served' = <<>>
               /\ step_counts' = sc
               /\ metrics' = ms
               /\ response' =
                    [status |-> 200,
                     data |-> [i \in 1..step_count |->
                                 TimedEntry(req.steps[i], ms[i],
                                            [x \in {"all"} |-> ms[i].current_count],
                                            StepTimes(i - 1, outcomes[i]))],
                     has_segments |-> FALSE]
               /\ pc' = "responded"
               /\ UNCHANGED <<raw_events, sessions, call, result, process_state>>

TimeNext == GetFunnelDataTimed \/ Return

TimeSpec == Init /\ [][TimeNext]_vars

\* the time query of step i (from 1) raised or returned no positive value
NoPositiveTime(i) ==
    LET outcome == rows[i + 1]
    IN \/ outcome.raised
       \/ outcome.rows = <<>>
       \/ ~Positive(outcome.rows[1][1])

\* C22: in the ungrouped path, when the time query of step idx raises or returns
\* no positive value the response is still a success, the step reports
\* avg_time_seconds = median_time_seconds = 120 + 30 * idx, and visitors,
\* conversion_rate, drop_off_rate and revenue_at_risk of every step are what the
\* funnel rows alone determine, as when the time query succeeds.
TimeFallback ==
    pc = "responded"
      => LET step_count == Len(request.steps)
             ms == AllMetrics(ProcessRows(EmptyDict, rows[1], step_count, "all"), step_count)
         IN /\ response.status = 200
            /\ Len(response.data) = step_count
            /\ \A i \in 1..step_count :
                 /\ NoPositiveTime(i)
                      => /\ response.data[i].avg_time_seconds = 120 + 30 * (i - 1)
                         /\ response.data[i].median_time_seconds = 120 + 30 * (i - 1)
                 /\ response.data[i].visitors = ms[i].current_count
                 /\ response.data[i].conversion_rate = Round1(ms[i].conversion_rate)
                 /\ response.data[i].drop_off_rate = Round1(ms[i].drop_off_rate)
                 /\ response.data[i].revenue_at_risk = ms[i].revenue_at_risk

\* a second step whose time query raised, after a first step whose query
\* returned a time, in a funnel with visitors
TimeFallbackWitness ==
    /\ pc = "responded"
    /\ Len(request.steps) >= 2
    /\ rows[3].raised
    /\ ~NoPositiveTime(1)
    /\ response.data[1].avg_time_seconds = 45
    /\ response.data[2].avg_time_seconds = 150
    /\ response.data[1].visitors > 0

(***************************************************************************)
(* GET /api/funnel/events/dynamic (get_dynamic_events) and its cache.  The *)
(* handler has no await: it runs from its first line to its return without *)
(* another request in between.  The clock advances between requests.       *)
(***************************************************************************)
\* the clock is followed for this many seconds after the start
MaxElapsed == 600

\* seconds between two requests: just inside, at and just beyond the TTL
TickAmounts == {_DYNAMIC_EVENTS_TTL_SEC - 1, _DYNAMIC_EVENTS_TTL_SEC, _DYNAMIC_EVENTS_TTL_SEC + 1}

Tick ==
    /\ pc = "idle"
    /\ \E d \in TickAmounts :
         /\ clock + d <= StartTime + MaxElapsed
         /\ clock' = clock + d
    /\ UNCHANGED <<raw_events, sessions, pc, request, funneled, rows, served, step_counts, metrics,
                   response, call, result, _DYNAMIC_EVENTS_CACHE, _anomaly_cache,
                   _last_check_timestamp, periodic_check>>

\* the event types in the store and the number of events of each in the last 90 days
DynamicEventTypes == {"page_view", "click"}
EventCounts == [DynamicEventTypes -> {0, 50, 150}]

\* event_type.replace("_", " ").title()
_format_event_label(event_type) ==
    CASE event_type = "page_view" -> "Page View"
      [] event_type = "click" -> "Click"

\* GROUP BY event_type HAVING cnt >= min_count ORDER BY cnt DESC LIMIT limit
DynamicEventsQuery(counts, min_count, limit) ==
    TopRows({<<t, counts[t]>> : t \in {x \in DynamicEventTypes :
                                          counts[x] > 0 /\ counts[x] >= min_count}}, limit)

DynamicEvent(r) == [event_type |-> r[1], count |-> r[2], label |-> _format_event_label(r[1])]

\* the demo-mapped event types returned when the query fails
FallbackEvents ==
    <<[event_type |-> "page_view", label |-> "Page View"],
      [event_type |-> "click", label |-> "Click"],
      [event_type |-> "date_select", label |-> "Date Select"],
      [event_type |-> "form_interaction", label |-> "Form Interaction"],
      [event_type |-> "room_view", label |-> "Room View"],
      [event_type |-> "price_view", label |-> "Price View"]>>

\* (now - ts) < TTL; the mutant serves an entry that is exactly TTL old
FreshInclusive(now, ts) == (now - ts) <= _DYNAMIC_EVENTS_TTL_SEC
Fresh(now, ts) == (now - ts) < _DYNAMIC_EVENTS_TTL_SEC

\* the handler has answered; request keeps its parameters and what it read at
\* line 1450-1451: now, and the cache entry as it was
RespondDynamic(min_count, limit, answers, resp, cache) ==
    /\ request' = [endpoint |-> "events/dynamic", min_count |-> min_count, limit |-> limit,
                   now |-> clock, cache_read |-> _DYNAMIC_EVENTS_CACHE]
    /\ rows' = answers
    /\ served' = <<>>
    /\ response' = resp
    /\ _DYNAMIC_EVENTS_CACHE' = cache
    /\ pc' = "responded"
    /\ funneled' = <<>>
    /\ step_counts' = EmptyDict
    /\ metrics' = <<>>
    /\ UNCHANGED <<raw_events, sessions, call, result, clock, _anomaly_cache,
                   _last_check_timestamp, periodic_check>>

GetDynamicEvents ==
    /\ pc = "idle"
    /\ \E min_count \in {1, 100}, limit \in {1, 50} :
         LET now == clock
         IN IF _DYNAMIC_EVENTS_CACHE.events # <<>> /\ Fresh(now, _DYNAMIC_EVENTS_CACHE.ts)
            THEN RespondDynamic(min_count, limit, <<>>,
                                [events |-> _DYNAMIC_EVENTS_CACHE.events, cached |-> TRUE,
                                 mode |-> "dynamic"],
                                _DYNAMIC_EVENTS_CACHE)
            ELSE \/ \E counts \in EventCounts :
                      \E rs \in DynamicEventsQuery(counts, min_count, limit) :
                         LET events == [i \in 1..Len(rs) |-> DynamicEvent(rs[i])]
                         IN RespondDynamic(min_count, limit,
                                           <<[raised |-> FALSE, rows |-> rs]>>,
                                           [events |-> events, cached |-> FALSE,
                                            mode |-> "dynamic"],
                                           [events |-> events, ts |-> now])
                 \/ RespondDynamic(min_count, limit, <<[raised |-> TRUE, rows |-> <<>>]>>,
                                   [events |-> FallbackEvents, cached |-> FALSE,
                                    mode |-> "dynamic", fallback |-> TRUE],
                                   _DYNAMIC_EVENTS_CACHE)

DynamicNext == Tick \/ GetDynamicEvents \/ Return

DynamicSpec == Init /\ [][DynamicNext]_vars

\* a dynamic-events request has been answered
DynamicAnswered == pc = "responded" /\ request.endpoint = "events/dynamic"

\* seconds between the call and the timestamp of the cache entry it read
CacheAge == request.now - request.cache_read.ts

\* C23: a response is marked cached = true only when the cache was non-empty and
\* stored less than 300 seconds before the call; for an entry of age >= 300 the
\* store is queried again and, on success, the cache content and its timestamp
\* are replaced by the new result.
CacheTTL ==
    DynamicAnswered
      => /\ response.cached
              => /\ request.cache_read.events # <<>>
                 /\ CacheAge < 300
                 /\ response.events = request.cache_read.events
                 /\ rows = <<>>
         /\ CacheAge >= 300
              => /\ Len(rows) = 1
                 /\ ~rows[1].raised
                      => _DYNAMIC_EVENTS_CACHE = [events |-> response.events,
                                                  ts |-> request.now]

\* a non-empty entry exactly 300 seconds old was replaced by a different result
CacheTTLWitness ==
    /\ DynamicAnswered
    /\ request.cache_read.events # <<>>
    /\ CacheAge = 300
    /\ ~response.cached
    /\ ~rows[1].raised
    /\ _DYNAMIC_EVENTS_CACHE.ts = request.now
    /\ _DYNAMIC_EVENTS_CACHE.events # request.cache_read.events

\* C25: a response served from the cache respects the parameters of the request
\* it answers: only event types with count >= min_count, at most limit entries.
CachedRespectsParameters ==
    (DynamicAnswered /\ response.cached)
      => /\ Len(response.events) <= request.limit
         /\ \A i \in 1..Len(response.events) : response.events[i].count >= request.min_count

\* C26: after a call at time t whose query succeeded, whatever it returned, a
\* call at a time in [t, t + 300) is answered from the cache without a store
\* query; a call whose query failed returns the static fallback list and leaves
\* the cache content and timestamp unchanged.
CacheServesWithinTTL ==
    DynamicAnswered
      => /\ (CacheAge >= 0 /\ CacheAge < 300) => (response.cached /\ rows = <<>>)
         /\ (rows # <<>> /\ rows[1].raised)
              => /\ response.events = FallbackEvents
                 /\ _DYNAMIC_EVENTS_CACHE = request.cache_read


(***************************************************************************)
(* Named segments of get_funnel_data: each filter of a segment is rendered *)
(* by build_filter_condition and the property name in the rendered text is *)
(* then replaced by the aliased column, s.<property> for the properties of *)
(* the sessions table and re.<property> for the others.  str.replace acts  *)
(* on every occurrence of the name in the text.  A property name is one    *)
(* piece of text here, so an occurrence is a piece equal to the name.      *)
(***************************************************************************)
session_properties == {"guest_segment", "traffic_source", "browser", "is_returning_visitor"}

\* text.replace(old, new) for a one-piece old and a text new
RECURSIVE Replace(_, _, _)
Replace(text, old, new) ==
    IF text = <<>> THEN <<>>
    ELSE (IF Head(text) = old THEN new ELSE <<Head(text)>>) \o Replace(Tail(text), old, new)

needs_session_join(filters) ==
    \E i \in 1..Len(filters) : filters[i].property \in session_properties

\* f's.{seg_filter.property}' or f're.{seg_filter.property}'
AliasedColumn(seg_filter, filters) ==
    IF needs_session_join(filters) /\ seg_filter.property \in session_properties
    THEN <<"s.", seg_filter.property>>
    ELSE <<"re.", seg_filter.property>>

AliasedCondition(seg_filter, filters) ==
    Replace(build_filter_condition_text(seg_filter), seg_filter.property,
            AliasedColumn(seg_filter, filters))

segment_filter_conditions(filters) ==
    [i \in 1..Len(filters) |-> AliasedCondition(filters[i], filters)]

segment_where_text(filters) ==
    IF filters = <<>> THEN <<>>
    ELSE <<"AND (">> \o Join(segment_filter_conditions(filters), " AND ") \o <<")">>

SegmentProperties == {"device_type", "browser"}
SegmentPieces == {"a", Quote} \cup SegmentProperties
SegmentTexts == UNION {[1..n -> SegmentPieces] : n \in 0..MaxLen}
SegmentFilters ==
    [property : SegmentProperties,
     operator : {"equals", "contains", "in", "greater_than", "is_null"},
     value : {BoolValue(TRUE), NumberValue(5)} \cup {StringValue(t) : t \in SegmentTexts}]
SessionFilter == [property |-> "browser", operator |-> "equals", value |-> StringValue(<<"a">>)]

\* the segment loop body of get_funnel_data up to segment_where_text
SegmentFilterConditions ==
    /\ call = NoCall
    /\ \E f \in SegmentFilters : \E filters \in {<<>>, <<f>>, <<f, SessionFilter>>} :
         /\ call' = [fn |-> "segment_filter_conditions", filters |-> filters]
         /\ result' = [conditions |-> segment_filter_conditions(filters),
                       segment_where |-> segment_where_text(filters)]
    /\ UNCHANGED <<raw_events, sessions, pc, request, funneled, rows, served, step_counts,
                   metrics, response, process_state>>

AliasNext == SegmentFilterConditions \/ ReturnFromCall

AliasSpec == Init /\ [][AliasNext]_vars

SegmentAliased == call.fn = "segment_filter_conditions"

\* C27: when a named segment's filter is given its table alias, only the
\* column reference changes: the aliased clause starts with the aliased
\* column and its literals are those of the clause build_filter_condition
\* produced, also when the value contains the property name.
AliasKeepsLiterals ==
    SegmentAliased =>
        \A i \in 1..Len(call.filters) :
            LET plain == build_filter_condition_text(call.filters[i])
                aliased == result.conditions[i]
            IN /\ SubSeq(aliased, 1, 2) = AliasedColumn(call.filters[i], call.filters)
               /\ Lex(aliased) = Lex(plain)


(***************************************************************************)
(* The autonomous analyst: detect_anomalies asks the store two questions,  *)
(* turns the answers into anomalies and replaces the in-process cache;     *)
(* GET /api/ai/anomalies reads the cache.  detect_anomalies is run by the  *)
(* task periodic_check, which startup_event creates: a loop of one         *)
(* background_anomaly_check and a sleep of CheckPeriod seconds.  Neither   *)
(* detect_anomalies nor the endpoint suspends before it is done, so each   *)
(* is one step.  Numbers of the store are Float(n) or NoValue (NULL).      *)
(* An anomaly's description is a rendering of its other fields and is left *)
(* out.  The clock is followed up to MaxChecks periods after the start and *)
(* reads the same from then on.                                            *)
(***************************************************************************)
MaxConversionRows == 26
MaxChecks == 2

Float(n) == [tag |-> "num", n |-> n]

\* one row of conversion_query: funnel_step, current_sessions,
\* current_conversions, baseline_sessions, baseline_conversions,
\* session_delta_pct, baseline_conversion_rate, current_conversion_rate
ConversionRow(kind, funnel_step) ==
    LET delta == CASE kind = "medium" -> -25 [] kind = "both" -> -40
                   [] kind = "visitors" -> -20 [] OTHER -> 0
        baseline == CASE kind = "visitors" -> Float(0) [] kind = "broken" -> NoValue
                      [] OTHER -> Float(20)
        current == CASE kind = "low" -> 17 [] kind = "medium" -> 16 [] kind = "both" -> 14
                     [] kind = "visitors" -> 0 [] OTHER -> 20
    IN [funnel_step |-> funnel_step, current_sessions |-> 200 + (2 * delta),
        current_conversions |-> 2 * current, baseline_sessions |-> 200,
        baseline_conversions |-> 40, session_delta_pct |-> delta,
        baseline_conversion_rate |-> baseline, current_conversion_rate |-> current]

ConversionAnswers ==
    {[raised |-> TRUE, rows |-> <<>>], [raised |-> FALSE, rows |-> <<>>]}
        \cup {[raised |-> FALSE, rows |-> [i \in 1..k |-> ConversionRow(kind, i)]] :
                kind \in {"low", "both"},
                k \in {1, MaxConversionRows - 1, MaxConversionRows}}
        \cup {[raised |-> FALSE,
               rows |-> <<ConversionRow("both", 1), ConversionRow("broken", 2),
                          ConversionRow("both", 3)>>],
              [raised |-> FALSE,
               rows |-> <<ConversionRow("low", 1), ConversionRow("medium", 2),
                          ConversionRow("visitors", 3), ConversionRow("steady", 4)>>]}

\* one row of revenue_query: current_revenue, baseline_revenue, revenue_delta_pct
RevenueRow(current, baseline, delta) ==
    [current_revenue |-> current, baseline_revenue |-> baseline,
     revenue_delta_pct |-> delta]

RevenueAnswers ==
    {[raised |-> TRUE, rows |-> <<>>], [raised |-> FALSE, rows |-> <<>>]}
        \cup {[raised |-> FALSE, rows |-> <<r>>] :
                r \in {RevenueRow(NoValue, NoValue, Float(0)),
                       RevenueRow(Float(70), Float(100), Float(-30)),
                       RevenueRow(Float(50), Float(100), Float(-50)),
                       RevenueRow(Float(150), Float(100), Float(50))}}

\* Anomaly(...).to_dict()
AnomalyDict(anomaly_type, severity, detected_at, metric_value, baseline_value, metadata) ==
    [anomaly_type |-> anomaly_type, severity |-> severity, detected_at |-> detected_at,
     metric_value |-> metric_value, baseline_value |-> baseline_value,
     metadata |-> metadata]

\* the conversion check of one row; the rate comparison is
\* (current - baseline) / baseline * 100 against the thresholds
ConversionDrop(row, now) ==
    LET baseline == row.baseline_conversion_rate.n
        conversion_delta == row.current_conversion_rate - baseline
        AtMost(pct) == conversion_delta * 100 <= pct * baseline
    IN IF baseline > 0 /\ AtMost(-15)
       THEN <<AnomalyDict("conversion_drop",
                          IF AtMost(-30) THEN "high"
                          ELSE IF AtMost(-20) THEN "medium" ELSE "low",
                          now, row.current_conversion_rate, baseline,
                          [funnel_step |-> row.funnel_step,
                           current_sessions |-> row.current_sessions,
                           current_conversions |-> row.current_conversions])>>
       ELSE <<>>

VisitorDrop(row, now) ==
    IF row.session_delta_pct <= -20
    THEN <<AnomalyDict("visitor_drop",
                       IF row.session_delta_pct <= -40 THEN "high" ELSE "medium",
                       now, row.current_sessions, row.baseline_sessions,
                       [funnel_step |-> row.funnel_step])>>
    ELSE <<>>

\* the loop over the rows: comparing a NULL rate with 0 raises, which ends
\* the loop with the anomalies appended so far
RECURSIVE ConversionAnomalies(_, _)
ConversionAnomalies(conversion_rows, now) ==
    IF conversion_rows = <<>> THEN <<>>
    ELSE IF Head(conversion_rows).baseline_conversion_rate = NoValue THEN <<>>
    ELSE ConversionDrop(Head(conversion_rows), now) \o VisitorDrop(Head(conversion_rows), now)
            \o ConversionAnomalies(Tail(conversion_rows), now)

\* `row[i] or 0`
OrZero(v) == IF Truthy(v) THEN v.n ELSE 0

RevenueAnomalies(revenue_rows, now) ==
    IF revenue_rows = <<>> THEN <<>>
    ELSE LET row == revenue_rows[1]
             current_revenue == OrZero(row.current_revenue)
             baseline_revenue == OrZero(row.baseline_revenue)
             revenue_delta_pct == OrZero(row.revenue_delta_pct)
             Deviation(severity) ==
                 <<AnomalyDict("revenue_deviation", severity, now, current_revenue,
                               baseline_revenue,
                               [revenue_delta_pct |-> revenue_delta_pct])>>
         IN IF baseline_revenue > 0
            THEN IF revenue_delta_pct <= -30
                 THEN Deviation(IF revenue_delta_pct <= -50 THEN "high" ELSE "medium")
                 ELSE IF revenue_delta_pct >= 50 THEN Deviation("medium") ELSE <<>>
            ELSE <<>>

\* the anomalies of one run, in the order they are appended
DetectedAnomalies(conversion, revenue, now) ==
    (IF conversion.raised THEN <<>> ELSE ConversionAnomalies(conversion.rows, now))
        \o (IF revenue.raised THEN <<>> ELSE RevenueAnomalies(revenue.rows, now))

\* the clock d seconds later
Later(t, d) ==
    IF t + d > StartTime + (MaxChecks * CheckPeriod) THEN StartTime + (MaxChecks * CheckPeriod)
    ELSE t + d

CheckDurations == {2}

\* asyncio.create_task(periodic_check())
Startup ==
    /\ periodic_check = "not_started"
    /\ periodic_check' = "ready"
    /\ UNCHANGED <<raw_events, sessions, pc, request, funneled, rows, served, step_counts, metrics,
                   response, call, result, clock, _DYNAMIC_EVENTS_CACHE, _anomaly_cache,
                   _last_check_timestamp>>

\* where periodic_check stands after background_anomaly_check: whatever the
\* check raised has been caught, and the loop goes on to its sleep
AfterCheckUncaught(raised) == IF raised THEN "stopped" ELSE "sleeping"
AfterCheck(raised) == "sleeping"

\* _anomaly_cache[:limit]
RecentAll(cache, limit) == cache
Recent(cache, limit) == Take(cache, limit)

\* one background_anomaly_check, between two requests: the import or the run
\* raises before the cache is assigned, or detect_anomalies runs to its end
BackgroundAnomalyCheck ==
    /\ periodic_check = "ready"
    /\ pc = "idle"
    /\ \E d \in CheckDurations :
         /\ clock' = Later(clock, d)
         /\ \/ /\ call' = [fn |-> "background_anomaly_check", raised |-> TRUE, now |-> clock,
                           conversion |-> [raised |-> TRUE, rows |-> <<>>],
                           revenue |-> [raised |-> TRUE, rows |-> <<>>]]
               /\ result' = NoResult
               /\ periodic_check' = AfterCheck(TRUE)
               /\ UNCHANGED <<_anomaly_cache, _last_check_timestamp>>
            \/ \E conversion \in ConversionAnswers, revenue \in RevenueAnswers :
                 LET now == clock
                     anomalies == DetectedAnomalies(conversion, revenue, now)
                 IN /\ call' = [fn |-> "background_anomaly_check", raised |-> FALSE,
                                now |-> now, conversion |-> conversion, revenue |-> revenue]
                    /\ result' = anomalies
                    /\ _anomaly_cache' = Take(anomalies, AnomalyCacheSize)
                    /\ _last_check_timestamp' = Some(now)
                    /\ periodic_check' = AfterCheck(FALSE)
    /\ UNCHANGED <<raw_events, sessions, pc, request, funneled, rows, served, step_counts, metrics,
                   response, _DYNAMIC_EVENTS_CACHE>>

\* await asyncio.sleep(900)
Sleep ==
    /\ periodic_check = "sleeping"
    /\ periodic_check' = "ready"
    /\ clock' = Later(clock, CheckPeriod)
    /\ UNCHANGED <<raw_events, sessions, pc, request, funneled, rows, served, step_counts, metrics,
                   response, call, result, _DYNAMIC_EVENTS_CACHE, _anomaly_cache,
                   _last_check_timestamp>>

\* GET /api/ai/anomalies?limit=..., limit between 1 and 50
GetRecentAnomalies ==
    /\ pc = "idle"
    /\ \E limit \in {1, 10, AnomalyCacheSize} :
         LET anomalies == Recent(_anomaly_cache, limit)
         IN /\ request' = [endpoint |-> "ai/anomalies", limit |-> limit]
            /\ response' = [anomalies |-> anomalies,
                            last_check_timestamp |-> _last_check_timestamp,
                            count |-> Len(anomalies)]
    /\ pc' = "responded"
    /\ funneled' = <<>>
    /\ rows' = <<>>
    /\ served' = <<>>
    /\ step_counts' = EmptyDict
    /\ metrics' = <<>>
    /\ UNCHANGED <<raw_events, sessions, call, result, process_state>>

AnomalyNext == Startup \/ BackgroundAnomalyCheck \/ Sleep \/ GetRecentAnomalies \/ Return

AnomalySpec == Init /\ [][AnomalyNext]_vars

\* the event loop's scheduling: the task is started, every request in
\* progress is finished, a sleep ends, and a check that is due runs between
\* two requests however many requests arrive
AnomalyLoopSpec ==
    AnomalySpec /\ WF_vars(Startup) /\ WF_vars(Return) /\ WF_vars(Sleep)
        /\ SF_vars(BackgroundAnomalyCheck)

CheckRan == call.fn = "background_anomaly_check" /\ ~call.raised
AnomaliesAnswered == pc = "responded" /\ request.endpoint = "ai/anomalies"

\* C28: after any sequence of detect_anomalies runs the cache holds the first
\* min(50, n) anomalies of the most recent run only, none when both queries
\* of that run failed; the last-check timestamp is the start time of that
\* run; and the endpoint returns at most limit entries, the first ones of
\* the cache, with that timestamp.
CacheIsLastRun ==
    /\ CheckRan =>
         /\ Len(_anomaly_cache) = (IF Len(result) < 50 THEN Len(result) ELSE 50)
         /\ \A i \in 1..Len(_anomaly_cache) :
              /\ _anomaly_cache[i] = result[i]
              /\ _anomaly_cache[i].detected_at = call.now
         /\ (call.conversion.raised /\ call.revenue.raised) => _anomaly_cache = <<>>
         /\ _last_check_timestamp = Some(call.now)
    /\ AnomaliesAnswered =>
         /\ Len(response.anomalies) <= request.limit
         /\ response.count = Len(response.anomalies)
         /\ Len(response.anomalies) <= Len(_anomaly_cache)
         /\ \A i \in 1..Len(response.anomalies) : response.anomalies[i] = _anomaly_cache[i]
         /\ response.last_check_timestamp = _last_check_timestamp

\* a second run that found more than 50 anomalies replaced the cache of the
\* first, and the endpoint returned the first 10 of them
CacheIsLastRunWitness ==
    /\ CheckRan /\ call.now > StartTime /\ Len(result) > 50
    /\ Len(_anomaly_cache) = 50
    /\ clock > call.now
    /\ AnomaliesAnswered /\ request.limit = 10 /\ Len(response.anomalies) = 10


\* the last check raised, or a store query of its run failed
CheckFailed ==
    /\ call.fn = "background_anomaly_check"
    /\ (call.raised \/ call.conversion.raised \/ call.revenue.raised)

\* C29: the background loop never stops because of a failed check: after a
\* check that raised or whose queries failed the loop sleeps and comes back
\* to start the next check, every check that is due is run, and so checks
\* are run again and again for ever.
LoopNeverStops ==
    /\ [](periodic_check \in {"not_started", "ready", "sleeping"})
    /\ (periodic_check = "sleeping" /\ CheckFailed) ~> (periodic_check = "ready")
    /\ (periodic_check = "ready") ~> (periodic_check = "sleeping")
    /\ []<>(periodic_check = "sleeping")

\* a check raised, the sleep of 900 seconds is over and the loop is about
\* to start the next check
LoopNeverStopsWitness ==
    /\ CheckFailed /\ call.raised
    /\ periodic_check = "ready"
    /\ clock >= call.now + CheckPeriod

====
